---- MODULE Spec2Model ----
(***************************************************************************)
(* State-machine model of package simplevisor (the process supervisor):    *)
(* the task registry, the restart-supervision loop run by one goroutine    *)
(* per task, and the timeout-bounded graceful shutdown.                    *)
(***************************************************************************)
EXTENDS Integers, Sequences, FiniteSets, TLC

(* ---------------------------------------------------------------------- *)
(* Bounds of the model                                                     *)
(* ---------------------------------------------------------------------- *)
MaxN == 2              \* largest maxRestarts passed to WithRestart
MaxShutdowns == 2      \* calls of Shutdown / WaitOnShutdownSignal
MaxUnits == 3          \* units spawned by Run and RestartProcess together
MaxRuns == 2           \* calls of Run
MaxExec == 4           \* invocations of a handler that is restarted for ever
MaxOpts == 2           \* options passed to one Register call

(* ---------------------------------------------------------------------- *)
(* Program constants                                                       *)
(* ---------------------------------------------------------------------- *)
DefaultGracefulShutdownTimeout == 5
DefaultRestartDelay == 1
DefaultMaxRestarts == 3
LogNSSupervisor == "supervisor"

RestartNever == "never"
RestartAlways == "always"
RestartOnFailure == "on_failure"
RestartPolicy == {RestartNever, RestartAlways, RestartOnFailure}

StatusStopped == "stopped"
StatusRunning == "running"
StatusRestarting == "restarting"
ProcessStatus == {StatusStopped, StatusRunning, StatusRestarting}

(* ---------------------------------------------------------------------- *)
(* Inputs                                                                  *)
(* ---------------------------------------------------------------------- *)
Names == {"a", "b"}

\* The goroutines that call Shutdown or WaitOnShutdownSignal.
Callers == {"main", "aux"}

\* The handlers (ProcessFunc values) the callers register:
\*   nil    returns nil immediately
\*   err    returns a non-nil error immediately
\*   panic  panics with PanicValue(name)
\*   block  waits for ctx.Done() and returns ctx.Err()
\*   ignore ignores the context, sleeps and returns nil
\*   errThenBlock  counts its invocations; returns an error on the first one,
\*                 waits for ctx.Done() and returns ctx.Err() on the later ones
HandlerKinds == {"nil", "err", "panic", "block", "ignore", "errThenBlock"}

PanicValue(name) == <<"panic", name>>

\* What an invocation of the handler can end with in the current state;
\* cancelled: the context it was given is done, count: the number of
\* invocations of the handler up to and including this one.
HandlerOutcomes(kind, cancelled, count) ==
    CASE kind = "nil" -> {"nil"}
      [] kind = "err" -> {"err"}
      [] kind = "panic" -> {"panic"}
      [] kind = "block" -> IF cancelled THEN {"err"} ELSE {}
      [] kind = "ignore" -> {"nil"}
      [] kind = "errThenBlock" ->
           IF count = 1 \/ cancelled THEN {"err"} ELSE {}

NoRecover == "nil"
RecoverFn == "recover"

WithRecover(h) == [opt |-> "WithRecover", handler |-> h]

WithRestart(policy, maxRestarts, delay) ==
    [opt |-> "WithRestart", policy |-> policy, maxRestarts |-> maxRestarts,
     delay |-> delay]

RestartOptions == {WithRestart(p, n, 0) : p \in RestartPolicy, n \in 1..MaxN}

Reg(h, o) == [handler |-> h, options |-> o]

\* The registrations of the task under study: every handler that returns by
\* itself or on cancellation, under every restart configuration.  A recover
\* handler is read only on the panic path, so it comes with the panicking
\* handler.
PolicyRegistrations ==
    {Reg(h, o) : h \in {"nil", "err", "panic", "block"},
                 o \in {<<>>} \cup {<<w>> : w \in RestartOptions}}
    \cup
    {Reg("panic", <<WithRecover(RecoverFn)>> \o o) :
        o \in {<<>>} \cup {<<w>> : w \in RestartOptions}}

\* The registrations of its sibling.
SiblingRegistrations ==
    {Reg("block", <<>>),
     Reg("err", <<WithRestart(RestartOnFailure, MaxN, 0)>>)}

\* The registrations of the tasks under manual control: a handler that
\* waits for cancellation, under Never and under OnFailure, and one that
\* returns at once under Always.
ControlRegistrations ==
    {Reg("block", <<>>),
     Reg("block", <<WithRestart(RestartOnFailure, MaxN, 0)>>),
     Reg("nil", <<WithRestart(RestartAlways, MaxN, 0)>>)}

\* The registrations of the lifecycle scenarios: the handler that fails once
\* and then waits, under OnFailure with two restarts and a delay of its own;
\* handlers that always return, with a restart limit of zero and below; a
\* handler that waits for cancellation, never restarted.
LifecycleRegistrations ==
    {Reg("errThenBlock", <<WithRestart(RestartOnFailure, 2, 2)>>),
     Reg("nil", <<WithRestart(RestartAlways, 0, 2)>>),
     Reg("err", <<WithRestart(RestartOnFailure, -1, 0)>>),
     Reg("block", <<>>)}

\* The options a caller passes to Register: either recover handler, every
\* policy, a restart limit of zero and a positive one, a negative, a zero,
\* the default and a longer delay.
RegisterOptions ==
    {WithRecover(RecoverFn), WithRecover(NoRecover)}
    \cup {WithRestart(p, n, d) : p \in RestartPolicy, n \in {0, MaxN},
                                 d \in {-1, 0, DefaultRestartDelay, 2}}

RECURSIVE OptionLists(_)
OptionLists(len) ==
    IF len = 0 THEN {<<>>}
    ELSE OptionLists(len - 1)
         \cup {Append(o, w) : o \in OptionLists(len - 1), w \in RegisterOptions}

\* The registrations with up to MaxOpts options.
OptionRegistrations == {Reg("block", o) : o \in OptionLists(MaxOpts)}

\* The registrations of the shutdown scenarios.
ShutdownRegistrations ==
    {Reg("block", <<>>),
     Reg("ignore", <<>>)}

(* ---------------------------------------------------------------------- *)
(* Pure functions                                                          *)
(* ---------------------------------------------------------------------- *)
\* Mutant: WithRestart stores the delay as given.
ApplyOptionKeepsDelay(p, o) ==
    IF o.opt = "WithRecover"
    THEN [p EXCEPT !.recoverHandler = o.handler]
    ELSE [p EXCEPT !.restartPolicy = o.policy,
                   !.maxRestarts = o.maxRestarts,
                   !.restartDelay = o.delay]

\* An Option applied to a Process (WithRecover, WithRestart).
ApplyOption(p, o) ==
    IF o.opt = "WithRecover"
    THEN [p EXCEPT !.recoverHandler = o.handler]
    ELSE [p EXCEPT !.restartPolicy = o.policy,
                   !.maxRestarts = o.maxRestarts,
                   !.restartDelay = IF o.delay <= 0 THEN DefaultRestartDelay
                                    ELSE o.delay]

\* Mutant: the options are applied last to first.
RECURSIVE ApplyOptionsReversed(_, _)
ApplyOptionsReversed(p, opts) ==
    IF opts = <<>> THEN p
    ELSE ApplyOption(ApplyOptionsReversed(p, Tail(opts)), Head(opts))

RECURSIVE ApplyOptions(_, _)
ApplyOptions(p, opts) ==
    IF opts = <<>> THEN p
    ELSE ApplyOptions(ApplyOption(p, Head(opts)), Tail(opts))

\* The Process value Register builds.
NewProcess(name, handler, options) ==
    ApplyOptions([name |-> name,
                  handler |-> handler,
                  recoverHandler |-> NoRecover,
                  restartPolicy |-> RestartNever,
                  maxRestarts |-> DefaultMaxRestarts,
                  restartDelay |-> DefaultRestartDelay,
                  restartCount |-> 0,
                  status |-> StatusStopped], options)

\* Mutant: OnFailure restarts whatever the outcome.
RestartDecisionIgnoringOutcome(policy, failed, panicOccurred) ==
    policy \in {RestartAlways, RestartOnFailure}

\* The switch on the restart policy at the end of executeProcess.
RestartDecision(policy, failed, panicOccurred) ==
    CASE policy = RestartNever -> FALSE
      [] policy = RestartAlways -> TRUE
      [] policy = RestartOnFailure -> failed \/ panicOccurred
      [] OTHER -> FALSE

\* The value executeProcess returns.  After a panic the deferred function
\* recovers and executeProcess returns the zero value of its unnamed bool
\* result; the switch on the policy is not reached.
ExecuteProcessResult(process, outcome) ==
    IF outcome = "panic" THEN FALSE
    ELSE RestartDecision(process.restartPolicy, outcome = "err", FALSE)

\* The deferred function of executeProcess calls recover().
PanicRecovered == TRUE

\* Mutant: the recover handler gets a formatted message, not the value.
RecoverArgumentFormatted(r) == <<"recover from panic", r>>

\* The value the deferred function passes to process.recoverHandler.
RecoverArgument(r) == r

\* Mutant: the limit is passed one restart early.
LimitReachedEarly(process, restartCount) ==
    process.maxRestarts > 0 /\ restartCount + 1 >= process.maxRestarts

\* Mutant: the limit is passed only when the count exceeds it.
LimitReachedLate(process, restartCount) ==
    process.maxRestarts > 0 /\ restartCount > process.maxRestarts

\* The limit test of executeProcessWithRestart.
LimitReached(process, restartCount) ==
    process.maxRestarts > 0 /\ restartCount >= process.maxRestarts

(* ---------------------------------------------------------------------- *)
(* The metrics recorder: every instrument keeps one accumulated value per  *)
(* series, a series being the set of attributes of the measurement         *)
(* ---------------------------------------------------------------------- *)
ProcessName(name) == <<"process_name", name>>
Policy(policy) == <<"restart_policy", policy>>
Reason(reason) == <<"reason", reason>>
StatusAttr(status) == <<"status", status>>
MaxRestartsAttr(maxRestarts) == <<"max_restarts", maxRestarts>>

\* The accumulated value of a series; a series never measured reads 0.
Value(instrument, attrs) ==
    IF attrs \in DOMAIN instrument THEN instrument[attrs] ELSE 0

\* instrument.Add(ctx, value, metric.WithAttributes(attrs...))
Add(instrument, attrs, value) ==
    [a \in DOMAIN instrument \cup {attrs} |->
        IF a = attrs THEN Value(instrument, attrs) + value ELSE instrument[a]]

\* newMetrics(): the instruments, nothing measured yet.
newMetrics ==
    [processesRunning |-> <<>>,
     processRestartCount |-> <<>>,
     processStatusGauge |-> <<>>,
     processStarted |-> <<>>,
     processStopped |-> <<>>,
     processRestarted |-> <<>>,
     restartLimitExceeded |-> <<>>]

\* The value updateProcessStatus adds for a status.
StatusValue(status) ==
    CASE status = StatusRunning -> 1
      [] status = StatusStopped -> 0
      [] status = StatusRestarting -> -1

\* The value resetProcessStatusGauge adds to the series of a status.
ResetValue(status) ==
    CASE status = StatusRunning -> -1
      [] status = StatusStopped -> 0
      [] status = StatusRestarting -> 1

resetProcessStatusGauge(m, name) ==
    LET g0 == m.processStatusGauge
        g1 == Add(g0, {ProcessName(name), StatusAttr(StatusRunning)},
                  ResetValue(StatusRunning))
        g2 == Add(g1, {ProcessName(name), StatusAttr(StatusStopped)},
                  ResetValue(StatusStopped))
        g3 == Add(g2, {ProcessName(name), StatusAttr(StatusRestarting)},
                  ResetValue(StatusRestarting))
    IN [m EXCEPT !.processStatusGauge = g3]

updateProcessStatus(m, name, status) ==
    LET r == resetProcessStatusGauge(m, name)
    IN [r EXCEPT !.processStatusGauge =
            Add(@, {ProcessName(name), StatusAttr(status)},
                StatusValue(status))]

updateRestartCount(m, name, count) ==
    [m EXCEPT !.processRestartCount = Add(@, {ProcessName(name)}, count)]

recordProcessStarted(m, name, policy) ==
    LET attrs == {ProcessName(name), Policy(policy)}
        m1 == [m EXCEPT !.processStarted = Add(@, attrs, 1),
                        !.processesRunning = Add(@, attrs, 1)]
    IN updateProcessStatus(m1, name, StatusRunning)

recordProcessStopped(m, name, reason) ==
    LET m1 == [m EXCEPT
                 !.processStopped = Add(@, {ProcessName(name), Reason(reason)}, 1),
                 !.processesRunning = Add(@, {ProcessName(name)}, -1)]
    IN updateProcessStatus(m1, name, StatusStopped)

recordProcessRestarted(m, name, policy, restartCount) ==
    LET m1 == [m EXCEPT !.processRestarted =
                 Add(@, {ProcessName(name), Policy(policy)}, 1)]
    IN updateProcessStatus(updateRestartCount(m1, name, restartCount), name,
                           StatusRestarting)

recordRestartLimitExceeded(m, name, maxRestarts) ==
    [m EXCEPT !.restartLimitExceeded =
        Add(@, {ProcessName(name), MaxRestartsAttr(maxRestarts)}, 1)]

\* The arguments of New in the tests: createTestSupervisor(timeout).
TestTimeout == 2
GivenLogger == "logger"
NilLogger == "nil"
DefaultLogger == "json-stdout"

\* The arguments a caller passes to New.
Timeouts == {-1, 0, 1, TestTimeout, DefaultGracefulShutdownTimeout}
Loggers == {NilLogger, GivenLogger}

\* sLog.WithGroup(LogNSSupervisor)
WithGroup(sLog, group) == [base |-> sLog, group |-> group]

\* Mutant: New stores the timeout as given.
NewKeepsTimeout(timeout, sLog) ==
    [shutdownTimeout |-> timeout,
     logger |-> WithGroup(IF sLog = NilLogger THEN DefaultLogger ELSE sLog,
                          LogNSSupervisor),
     processes |-> <<>>,
     ctxDone |-> FALSE]

\* The Supervisor that New(shutdownTimeout, sLog) returns.
New(timeout, sLog) ==
    [shutdownTimeout |-> IF timeout <= 0 THEN DefaultGracefulShutdownTimeout
                         ELSE timeout,
     logger |-> WithGroup(IF sLog = NilLogger THEN DefaultLogger ELSE sLog,
                          LogNSSupervisor),
     processes |-> <<>>,
     ctxDone |-> FALSE]

(* ---------------------------------------------------------------------- *)
(* State                                                                   *)
(* ---------------------------------------------------------------------- *)
VARIABLES
    processes,        \* s.processes: name -> Process
    ctxDone,          \* s.shutDownCtx is cancelled
    processWg,        \* counter of s.processWg
    units,            \* the goroutines spawned by Run
    runCalls,         \* number of Run() calls made
    execCount,        \* per task: number of handler invocations
    recovered,        \* per task: the values passed to its recover handler
    panics,           \* per task: recordProcessPanic events
    registerPanicked, \* the last Register call panicked
    crashed,          \* a panic left a goroutine unrecovered
    shut,             \* per caller: its Shutdown / WaitOnShutdownSignal call
    shutdownCalls,    \* number of shutdown calls begun
    shutdownTimeouts, \* recordShutdownTimeout events
    signalPending,    \* s.shutdownSignal holds a signal
    reply,            \* the value the last query or control call returned
    ctl,              \* per control goroutine: its manual control call
    stopFlag,         \* per task: its task-scoped stop signal is raised
    metrics,          \* s.metrics: the instruments of the recorder
    newArgs,          \* the arguments New was called with
    shutdownTimeout,  \* s.shutdownTimeout
    logger,           \* s.logger
    lock,             \* s.lock: the goroutine that holds it
    regCall,          \* per caller: its Register call in progress
    race              \* s.processes was read unlocked during a write

regVars == <<processes, registerPanicked>>
unitVars == <<units, execCount, recovered, panics, crashed>>
shutVars == <<shut, shutdownCalls, shutdownTimeouts, signalPending>>
ctlVars == <<reply, ctl, stopFlag>>
cfgVars == <<newArgs, shutdownTimeout, logger>>
lockVars == <<lock, regCall, race>>

vars == <<processes, ctxDone, processWg, units, runCalls, execCount,
          recovered, panics, registerPanicked, crashed, shut, shutdownCalls,
          shutdownTimeouts, signalPending, reply, ctl, stopFlag, metrics,
          newArgs, shutdownTimeout, logger, lock, regCall, race>>

Registered == DOMAIN processes

\* An unrecovered panic ends the program: a panic of a handler that nothing
\* recovers, or the panic of Register in the calling goroutine.
Halted == crashed \/ registerPanicked

IdleCall ==
    [pc |-> "idle", teardown |-> FALSE, tornDown |-> 0, waiter |-> "none",
     branch |-> "none", timeouts |-> 0, spawned |-> 0]

\* No query or control call has returned yet.
NoReply ==
    [op |-> "none", name |-> "", ok |-> FALSE, status |-> "", count |-> 0,
     err |-> ""]

\* s.lock is not held.
NoHolder == "free"

\* A caller that is in no Register call.
IdleRegister == [pc |-> "idle", name |-> "", handler |-> "", options |-> <<>>]

\* A control goroutine that is in no manual control call.
IdleControl == [op |-> "none", name |-> "", pc |-> "idle"]

\* The state after New(timeout, sLog) and EnableMetrics().
Constructed(timeout, sLog) ==
    /\ newArgs = [timeout |-> timeout, logger |-> sLog]
    /\ shutdownTimeout = New(timeout, sLog).shutdownTimeout
    /\ logger = New(timeout, sLog).logger
    /\ processes = New(timeout, sLog).processes
    /\ ctxDone = New(timeout, sLog).ctxDone
    /\ metrics = newMetrics
    /\ processWg = 0
    /\ units = <<>>
    /\ runCalls = 0
    /\ execCount = [n \in Names |-> 0]
    /\ recovered = [n \in Names |-> <<>>]
    /\ panics = [n \in Names |-> 0]
    /\ registerPanicked = FALSE
    /\ crashed = FALSE
    /\ shut = [c \in Callers |-> IdleCall]
    /\ shutdownCalls = 0
    /\ shutdownTimeouts = 0
    /\ signalPending = FALSE
    /\ reply = NoReply
    /\ ctl = [c \in Callers |-> IdleControl]
    /\ stopFlag = [n \in Names |-> FALSE]
    /\ lock = NoHolder
    /\ regCall = [c \in Callers |-> IdleRegister]
    /\ race = FALSE

\* The supervisor of the tests: createTestSupervisor(timeout).
Init == Constructed(TestTimeout, GivenLogger)

\* A supervisor made with any arguments.
InitNew == \E timeout \in Timeouts, sLog \in Loggers : Constructed(timeout, sLog)

(* ---------------------------------------------------------------------- *)
(* Accessors (each takes s.lock for its whole body)                        *)
(* ---------------------------------------------------------------------- *)
\* Mutant: the status is written to every record of the registry.
setProcessStatusOfAll(procs, name, status) ==
    [n \in DOMAIN procs |-> [procs[n] EXCEPT !.status = status]]

setProcessStatus(procs, name, status) ==
    IF name \in DOMAIN procs
    THEN [procs EXCEPT ![name].status = status]
    ELSE procs

incrementRestartCount(procs, name) ==
    IF name \in DOMAIN procs
    THEN [procs EXCEPT ![name].restartCount = @ + 1]
    ELSE procs

getRestartCount(procs, name) ==
    IF name \in DOMAIN procs THEN procs[name].restartCount ELSE 0

\* Mutant: a restarting process counts as running.
IsRunningNotStopped(name) ==
    IF name \in Registered THEN processes[name].status # StatusStopped
    ELSE FALSE

IsRunning(name) ==
    IF name \in Registered THEN processes[name].status = StatusRunning
    ELSE FALSE

ProcessCount == Cardinality(Registered)

ErrNil == "nil"
ErrNotFound == "not found"

\* Mutant: an unknown name is reported as a stopped process, without error.
GetProcessStatusNoError(name) ==
    IF name \in Registered
    THEN [status |-> processes[name].status, err |-> ErrNil]
    ELSE [status |-> StatusStopped, err |-> ErrNil]

\* The (ProcessStatus, error) pair GetProcessStatus returns.
GetProcessStatus(name) ==
    IF name \in Registered
    THEN [status |-> processes[name].status, err |-> ErrNil]
    ELSE [status |-> StatusStopped, err |-> ErrNotFound]

\* A goroutine calls IsRunning(name) and gets the result.
QueryIsRunning(name) ==
    /\ ~Halted
    /\ reply' = [NoReply EXCEPT !.op = "IsRunning", !.name = name,
                                !.ok = IsRunning(name), !.err = ErrNil]
    /\ UNCHANGED <<cfgVars, lockVars, metrics, regVars, ctxDone, processWg, runCalls, unitVars, shutVars,
                   ctl, stopFlag>>

\* A goroutine calls GetProcessStatus(name) and gets the result.
QueryGetProcessStatus(name) ==
    /\ ~Halted
    /\ reply' = [NoReply EXCEPT !.op = "GetProcessStatus", !.name = name,
                                !.status = GetProcessStatus(name).status,
                                !.err = GetProcessStatus(name).err]
    /\ UNCHANGED <<cfgVars, lockVars, metrics, regVars, ctxDone, processWg, runCalls, unitVars, shutVars,
                   ctl, stopFlag>>

\* A goroutine calls ProcessCount() and gets the result.
QueryProcessCount ==
    /\ ~Halted
    /\ reply' = [NoReply EXCEPT !.op = "ProcessCount", !.count = ProcessCount,
                                !.err = ErrNil]
    /\ UNCHANGED <<cfgVars, lockVars, metrics, regVars, ctxDone, processWg, runCalls, unitVars, shutVars,
                   ctl, stopFlag>>

(* ---------------------------------------------------------------------- *)
(* Register / Run                                                          *)
(* ---------------------------------------------------------------------- *)
\* Mutant: the name check finds nothing.
nameNeverInUse(name) == FALSE

\* TRUE when panicIfNameAlreadyInUse panics.
panicIfNameAlreadyInUse(name) == name \in Registered

\* Mutant: a task registered after Run joins the running supervisor.
RegisterJoins(name, handler, options) ==
    /\ ~Halted
    /\ IF panicIfNameAlreadyInUse(name)
       THEN /\ registerPanicked' = TRUE
            /\ UNCHANGED <<processes, units, processWg>>
       ELSE /\ processes' = [n \in Registered \cup {name} |->
                               IF n = name
                               THEN NewProcess(name, handler, options)
                               ELSE processes[n]]
            /\ registerPanicked' = FALSE
            /\ IF runCalls > 0
               THEN /\ units' = Append(units,
                                       [name |-> name,
                                        process |-> NewProcess(name, handler,
                                                               options),
                                        pc |-> "start", ret |-> 0,
                                        count |-> 0])
                    /\ processWg' = processWg + 1
               ELSE UNCHANGED <<units, processWg>>
    /\ UNCHANGED <<cfgVars, lockVars, metrics, ctlVars, ctxDone, runCalls, execCount,
                   recovered, panics, crashed, shutVars>>

Register(name, handler, options) ==
    /\ ~Halted
    /\ IF panicIfNameAlreadyInUse(name)
       THEN /\ registerPanicked' = TRUE
            /\ UNCHANGED processes
       ELSE /\ processes' = [n \in Registered \cup {name} |->
                               IF n = name
                               THEN NewProcess(name, handler, options)
                               ELSE processes[n]]
            /\ registerPanicked' = FALSE
    /\ UNCHANGED <<cfgVars, lockVars, metrics, ctlVars, ctxDone, processWg, runCalls, unitVars, shutVars>>

\* Register, step by step.  s.panicIfNameAlreadyInUse(name): the name is
\* looked up in one critical section of s.lock, which is released before the
\* Process value is built.
RegisterBegin(c, name, handler, options) ==
    /\ ~Halted
    /\ regCall[c].pc = "idle"
    /\ shut[c].pc \in {"idle", "returned"}
    /\ lock = NoHolder
    /\ IF panicIfNameAlreadyInUse(name)
       THEN /\ registerPanicked' = TRUE
            /\ UNCHANGED regCall
       ELSE /\ regCall' = [regCall EXCEPT ![c] =
                              [pc |-> "built", name |-> name,
                               handler |-> handler, options |-> options]]
            /\ UNCHANGED registerPanicked
    /\ UNCHANGED <<cfgVars, metrics, ctlVars, lock, race, processes, ctxDone,
                   processWg, runCalls, unitVars, shutVars>>

\* Register: s.lock.Lock()
RegisterLock(c) ==
    /\ ~Halted
    /\ regCall[c].pc = "built"
    /\ lock = NoHolder
    /\ lock' = c
    /\ regCall' = [regCall EXCEPT ![c].pc = "locked"]
    /\ UNCHANGED <<cfgVars, metrics, ctlVars, race, regVars, ctxDone,
                   processWg, runCalls, unitVars, shutVars>>

\* Register: s.processes[name] = process; s.lock.Unlock()
RegisterStore(c) ==
    /\ ~Halted
    /\ regCall[c].pc = "locked"
    /\ lock = c
    /\ processes' = [n \in Registered \cup {regCall[c].name} |->
                       IF n = regCall[c].name
                       THEN NewProcess(regCall[c].name, regCall[c].handler,
                                       regCall[c].options)
                       ELSE processes[n]]
    /\ lock' = NoHolder
    /\ regCall' = [regCall EXCEPT ![c] = IdleRegister]
    /\ UNCHANGED <<cfgVars, metrics, ctlVars, race, registerPanicked, ctxDone,
                   processWg, runCalls, unitVars, shutVars>>

NewUnit(name, process) ==
    [name |-> name, process |-> process, pc |-> "start", ret |-> 0,
     count |-> 0]

RECURSIVE SpawnAll(_, _)
SpawnAll(us, names) ==
    IF names = {} THEN us
    ELSE LET n == CHOOSE x \in names : TRUE
         IN SpawnAll(Append(us, NewUnit(n, processes[n])), names \ {n})

Run ==
    /\ ~Halted
    /\ runCalls' = runCalls + 1
    /\ units' = SpawnAll(units, Registered)
    /\ processWg' = processWg + Cardinality(Registered)
    /\ UNCHANGED <<cfgVars, lockVars, metrics, ctlVars, regVars, ctxDone, execCount, recovered, panics, crashed,
                   shutVars>>

(* ---------------------------------------------------------------------- *)
(* executeProcessWithRestart / executeProcess, one goroutine per unit      *)
(* ---------------------------------------------------------------------- *)
Units == 1..Len(units)

Goto(u, pc) == [units EXCEPT ![u].pc = pc]

\* A return statement of executeProcessWithRestart, named by its line.
Return(u, line) == [units EXCEPT ![u].pc = "return", ![u].ret = line]

\* Mutant: the loop does not look at the token before invoking the handler.
UnitCheckCtxSkipped(u) ==
    /\ ~Halted
    /\ units[u].pc = "start"
    /\ units' = Goto(u, "setRunning")
    /\ UNCHANGED <<cfgVars, lockVars, metrics, ctlVars, regVars, ctxDone, processWg,
                   runCalls, execCount, recovered, panics, crashed, shutVars>>

\* for { select { case <-s.shutDownCtx.Done(): return; default: } ...
UnitCheckCtx(u) ==
    /\ ~Halted
    /\ units[u].pc = "start"
    /\ units' = IF ctxDone THEN Return(u, 206) ELSE Goto(u, "setRunning")
    /\ UNCHANGED <<cfgVars, lockVars, metrics, ctlVars, regVars, ctxDone, processWg, runCalls, execCount,
                   recovered, panics, crashed, shutVars>>

\* Mutant: a task that starts again has its restart count reset.
UnitSetRunningResets(u) ==
    /\ ~Halted
    /\ units[u].pc = "setRunning"
    /\ processes' = [setProcessStatus(processes, units[u].name, StatusRunning)
                        EXCEPT ![units[u].name].restartCount = 0]
    /\ metrics' = recordProcessStarted(metrics, units[u].name,
                                       units[u].process.restartPolicy)
    /\ units' = Goto(u, "invoke")
    /\ UNCHANGED <<cfgVars, lockVars, ctlVars, registerPanicked, ctxDone,
                   processWg, runCalls, execCount, recovered, panics, crashed,
                   shutVars>>

\* Mutant: the handler is invoked without the status having been set.
UnitSetRunningOmitted(u) ==
    /\ ~Halted
    /\ units[u].pc = "setRunning"
    /\ metrics' = recordProcessStarted(metrics, units[u].name,
                                       units[u].process.restartPolicy)
    /\ units' = Goto(u, "invoke")
    /\ UNCHANGED <<cfgVars, lockVars, ctlVars, regVars, ctxDone, processWg,
                   runCalls, execCount, recovered, panics, crashed, shutVars>>

\* executeProcess: s.setProcessStatus(name, StatusRunning);
\* s.metrics.recordProcessStarted(..., name, process.restartPolicy)
UnitSetRunning(u) ==
    /\ ~Halted
    /\ units[u].pc = "setRunning"
    /\ processes' = setProcessStatus(processes, units[u].name, StatusRunning)
    /\ metrics' = recordProcessStarted(metrics, units[u].name,
                                       units[u].process.restartPolicy)
    /\ units' = Goto(u, "invoke")
    /\ UNCHANGED <<cfgVars, lockVars, ctlVars, registerPanicked, ctxDone, processWg, runCalls, execCount,
                   recovered, panics, crashed, shutVars>>

\* Mutant: the handler is invoked with s.lock held.
UnitInvokeLocked(u) ==
    /\ ~Halted
    /\ units[u].pc = "invoke"
    /\ lock = NoHolder
    /\ lock' = "unit"
    /\ execCount' = [execCount EXCEPT ![units[u].name] = @ + 1]
    /\ units' = [units EXCEPT ![u].pc = "handler",
                              ![u].count = execCount[units[u].name] + 1]
    /\ UNCHANGED <<cfgVars, regCall, race, metrics, ctlVars, regVars, ctxDone,
                   processWg, runCalls, recovered, panics, crashed, shutVars>>

\* executeProcess: process.handler(s.shutDownCtx) is entered
UnitInvoke(u) ==
    /\ ~Halted
    /\ units[u].pc = "invoke"
    /\ execCount' = [execCount EXCEPT ![units[u].name] = @ + 1]
    /\ units' = [units EXCEPT ![u].pc = "handler",
                              ![u].count = execCount[units[u].name] + 1]
    /\ UNCHANGED <<cfgVars, lockVars, metrics, ctlVars, regVars, ctxDone, processWg, runCalls, recovered, panics,
                   crashed, shutVars>>

\* The stopped event of executeProcess: reason "error" when the handler
\* returned an error, "success" when it returned nil; a panic unwinds past
\* both calls of recordProcessStopped.
StoppedEvent(m, name, outcome) ==
    CASE outcome = "err" -> recordProcessStopped(m, name, "error")
      [] outcome = "nil" -> recordProcessStopped(m, name, "success")
      [] OTHER -> m

\* The handler returns, or panics and the deferred function runs;
\* executeProcess returns shouldRestart.
UnitHandlerEnds(u) ==
    /\ ~Halted
    /\ units[u].pc = "handler"
    /\ \E outcome \in HandlerOutcomes(units[u].process.handler, ctxDone,
                                       units[u].count) :
         IF outcome = "panic" /\ ~PanicRecovered
         THEN /\ crashed' = TRUE
              /\ UNCHANGED <<units, recovered, panics, metrics>>
         ELSE /\ metrics' = StoppedEvent(metrics, units[u].name, outcome)
              /\ panics' = IF outcome = "panic"
                           THEN [panics EXCEPT ![units[u].name] = @ + 1]
                           ELSE panics
              /\ recovered' =
                   IF outcome = "panic"
                      /\ units[u].process.recoverHandler # NoRecover
                   THEN [recovered EXCEPT ![units[u].name] =
                           Append(@, RecoverArgument(PanicValue(units[u].name)))]
                   ELSE recovered
              /\ units' = IF ExecuteProcessResult(units[u].process, outcome)
                          THEN Goto(u, "increment")
                          ELSE Goto(u, "stop")
              /\ UNCHANGED crashed
    /\ UNCHANGED <<cfgVars, lockVars, ctlVars, regVars, ctxDone, processWg, runCalls, execCount, shutVars>>

\* if !shouldRestart { s.setProcessStatus(name, StatusStopped); return }
UnitStop(u) ==
    /\ ~Halted
    /\ units[u].pc = "stop"
    /\ processes' = setProcessStatus(processes, units[u].name, StatusStopped)
    /\ units' = Return(u, 214)
    /\ UNCHANGED <<cfgVars, lockVars, metrics, ctlVars, registerPanicked, ctxDone, processWg, runCalls, execCount,
                   recovered, panics, crashed, shutVars>>

\* s.incrementRestartCount(name)
UnitIncrement(u) ==
    /\ ~Halted
    /\ units[u].pc = "increment"
    /\ processes' = incrementRestartCount(processes, units[u].name)
    /\ units' = Goto(u, "checkLimit")
    /\ UNCHANGED <<cfgVars, lockVars, metrics, ctlVars, registerPanicked, ctxDone, processWg, runCalls, execCount,
                   recovered, panics, crashed, shutVars>>

\* if process.maxRestarts > 0 && s.getRestartCount(name) >= process.maxRestarts
UnitCheckLimit(u) ==
    /\ ~Halted
    /\ units[u].pc = "checkLimit"
    /\ units' = IF LimitReached(units[u].process,
                                getRestartCount(processes, units[u].name))
                THEN Goto(u, "limit")
                ELSE Goto(u, "setRestarting")
    /\ UNCHANGED <<cfgVars, lockVars, metrics, ctlVars, regVars, ctxDone, processWg, runCalls, execCount,
                   recovered, panics, crashed, shutVars>>

\* Mutant: the limit is recorded and the status set, but the loop goes on.
UnitLimitGoesOn(u) ==
    /\ ~Halted
    /\ units[u].pc = "limit"
    /\ metrics' = recordRestartLimitExceeded(metrics, units[u].name,
                                             units[u].process.maxRestarts)
    /\ processes' = setProcessStatus(processes, units[u].name, StatusStopped)
    /\ units' = Goto(u, "start")
    /\ UNCHANGED <<cfgVars, lockVars, ctlVars, registerPanicked, ctxDone, processWg,
                   runCalls, execCount, recovered, panics, crashed, shutVars>>

\* ... recordRestartLimitExceeded; s.setProcessStatus(name, StatusStopped); return
UnitLimit(u) ==
    /\ ~Halted
    /\ units[u].pc = "limit"
    /\ metrics' = recordRestartLimitExceeded(metrics, units[u].name,
                                             units[u].process.maxRestarts)
    /\ processes' = setProcessStatus(processes, units[u].name, StatusStopped)
    /\ units' = Return(u, 227)
    /\ UNCHANGED <<cfgVars, lockVars, ctlVars, registerPanicked, ctxDone, processWg, runCalls, execCount,
                   recovered, panics, crashed, shutVars>>

\* s.setProcessStatus(name, StatusRestarting);
\* restartCount := s.getRestartCount(name); ... recordProcessRestarted
UnitSetRestarting(u) ==
    /\ ~Halted
    /\ units[u].pc = "setRestarting"
    /\ processes' = setProcessStatus(processes, units[u].name, StatusRestarting)
    /\ metrics' = recordProcessRestarted(metrics, units[u].name,
                                         units[u].process.restartPolicy,
                                         getRestartCount(processes, units[u].name))
    /\ units' = Goto(u, "wait")
    /\ UNCHANGED <<cfgVars, lockVars, ctlVars, registerPanicked, ctxDone, processWg, runCalls, execCount,
                   recovered, panics, crashed, shutVars>>

\* select { case <-time.After(process.restartDelay): ...
UnitDelayElapsed(u) ==
    /\ ~Halted
    /\ units[u].pc = "wait"
    /\ units' = Goto(u, "start")
    /\ UNCHANGED <<cfgVars, lockVars, metrics, ctlVars, regVars, ctxDone, processWg, runCalls, execCount,
                   recovered, panics, crashed, shutVars>>

\* Mutant: the cancelled wait sets the status to Stopped before it returns.
UnitDelayCancelledStops(u) ==
    /\ ~Halted
    /\ units[u].pc = "wait"
    /\ ctxDone
    /\ processes' = setProcessStatus(processes, units[u].name, StatusStopped)
    /\ units' = Return(u, 242)
    /\ UNCHANGED <<cfgVars, lockVars, metrics, ctlVars, registerPanicked, ctxDone,
                   processWg, runCalls, execCount, recovered, panics, crashed,
                   shutVars>>

\* ... case <-s.shutDownCtx.Done(): return }
UnitDelayCancelled(u) ==
    /\ ~Halted
    /\ units[u].pc = "wait"
    /\ ctxDone
    /\ units' = Return(u, 242)
    /\ UNCHANGED <<cfgVars, lockVars, metrics, ctlVars, regVars, ctxDone, processWg, runCalls, execCount,
                   recovered, panics, crashed, shutVars>>

\* Mutant: the unit releases the wait group twice.
UnitDoneTwice(u) ==
    /\ ~Halted
    /\ units[u].pc = "return"
    /\ units' = Goto(u, "exited")
    /\ IF processWg - 2 < 0
       THEN crashed' = TRUE /\ UNCHANGED processWg
       ELSE processWg' = processWg - 2 /\ UNCHANGED crashed
    /\ UNCHANGED <<cfgVars, lockVars, metrics, ctlVars, regVars, ctxDone, runCalls, execCount, recovered, panics,
                   shutVars>>

\* Mutant: a unit whose handler has panicked exits without releasing the
\* wait group.
UnitDoneLostByPanic(u) ==
    /\ ~Halted
    /\ units[u].pc = "return"
    /\ units' = Goto(u, "exited")
    /\ IF panics[units[u].name] > 0
       THEN UNCHANGED <<processWg, crashed>>
       ELSE IF processWg - 1 < 0
            THEN crashed' = TRUE /\ UNCHANGED processWg
            ELSE processWg' = processWg - 1 /\ UNCHANGED crashed
    /\ UNCHANGED <<cfgVars, lockVars, metrics, ctlVars, regVars, ctxDone,
                   runCalls, execCount, recovered, panics, shutVars>>

\* defer s.processWg.Done(); a negative WaitGroup counter panics.
UnitDone(u) ==
    /\ ~Halted
    /\ units[u].pc = "return"
    /\ units' = Goto(u, "exited")
    /\ IF processWg - 1 < 0
       THEN crashed' = TRUE /\ UNCHANGED processWg
       ELSE processWg' = processWg - 1 /\ UNCHANGED crashed
    /\ UNCHANGED <<cfgVars, lockVars, metrics, ctlVars, regVars, ctxDone, runCalls, execCount, recovered, panics,
                   shutVars>>

UnitStep(u) ==
    \/ UnitCheckCtx(u)
    \/ UnitSetRunning(u)
    \/ UnitInvoke(u)
    \/ UnitHandlerEnds(u)
    \/ UnitStop(u)
    \/ UnitIncrement(u)
    \/ UnitCheckLimit(u)
    \/ UnitLimit(u)
    \/ UnitSetRestarting(u)
    \/ UnitDelayElapsed(u)
    \/ UnitDelayCancelled(u)
    \/ UnitDone(u)

(* ---------------------------------------------------------------------- *)
(* Shutdown / WaitOnShutdownSignal / shutdown / gracefulShutdown           *)
(* ---------------------------------------------------------------------- *)
BeginCall(c, pc, teardown) ==
    [shut EXCEPT ![c] = [IdleCall EXCEPT !.pc = pc, !.teardown = teardown]]

\* Shutdown(): s.shutdown(nil)
Shutdown(c) ==
    /\ ~Halted
    /\ shut[c].pc \in {"idle", "returned"}
    /\ shutdownCalls < MaxShutdowns
    /\ shutdownCalls' = shutdownCalls + 1
    /\ shut' = BeginCall(c, "cancel", FALSE)
    /\ UNCHANGED <<cfgVars, lockVars, metrics, ctlVars, regVars, ctxDone, processWg, runCalls, unitVars,
                   shutdownTimeouts, signalPending>>

\* WaitOnShutdownSignal(teardown): signal.Notify(...); <-s.shutdownSignal
WaitOnShutdownSignal(c, teardown) ==
    /\ ~Halted
    /\ shut[c].pc \in {"idle", "returned"}
    /\ shutdownCalls < MaxShutdowns
    /\ shutdownCalls' = shutdownCalls + 1
    /\ shut' = BeginCall(c, "signal", teardown)
    /\ UNCHANGED <<cfgVars, lockVars, metrics, ctlVars, regVars, ctxDone, processWg, runCalls, unitVars,
                   shutdownTimeouts, signalPending>>

\* The operating system delivers SIGINT or SIGTERM to a notified channel.
SignalArrives ==
    /\ ~Halted
    /\ \E c \in Callers : shut[c].pc = "signal"
    /\ ~signalPending
    /\ signalPending' = TRUE
    /\ UNCHANGED <<cfgVars, lockVars, metrics, ctlVars, regVars, ctxDone, processWg, runCalls, unitVars, shut,
                   shutdownCalls, shutdownTimeouts>>

\* <-s.shutdownSignal returns; s.shutdown(teardown)
SignalReceived(c) ==
    /\ ~Halted
    /\ shut[c].pc = "signal"
    /\ signalPending
    /\ signalPending' = FALSE
    /\ shut' = [shut EXCEPT ![c].pc = "cancel"]
    /\ UNCHANGED <<cfgVars, lockVars, metrics, ctlVars, regVars, ctxDone, processWg, runCalls, unitVars,
                   shutdownCalls, shutdownTimeouts>>

\* gracefulShutdown: the log line reads len(s.processes) without taking
\* s.lock, a data race when another goroutine is writing the map (the number
\* read goes to the log only); s.shutDownCancel(); done := make(chan struct{});
\* go func() { s.processWg.Wait(); close(done) }()
GracefulCancel(c) ==
    /\ ~Halted
    /\ shut[c].pc = "cancel"
    /\ race' = (race \/ lock \notin {NoHolder, c})
    /\ ctxDone' = TRUE
    /\ shut' = [shut EXCEPT ![c].pc = "wait", ![c].waiter = "waiting",
                            ![c].spawned = Len(units)]
    /\ UNCHANGED <<cfgVars, lock, regCall, metrics, ctlVars, regVars, processWg, runCalls, unitVars, shutdownCalls,
                   shutdownTimeouts, signalPending>>

\* Mutant: the waiting goroutine does not wait for the wait group.
WaiterReleasedEarly(c) ==
    /\ ~Halted
    /\ shut[c].waiter = "waiting"
    /\ shut' = [shut EXCEPT ![c].waiter = "released"]
    /\ UNCHANGED <<cfgVars, lockVars, metrics, ctlVars, regVars, ctxDone, processWg, runCalls, unitVars,
                   shutdownCalls, shutdownTimeouts, signalPending>>

\* The waiting goroutine: s.processWg.Wait() returns
WaiterReleased(c) ==
    /\ ~Halted
    /\ shut[c].waiter = "waiting"
    /\ processWg = 0
    /\ shut' = [shut EXCEPT ![c].waiter = "released"]
    /\ UNCHANGED <<cfgVars, lockVars, metrics, ctlVars, regVars, ctxDone, processWg, runCalls, unitVars,
                   shutdownCalls, shutdownTimeouts, signalPending>>

\* The waiting goroutine: close(done)
WaiterClose(c) ==
    /\ ~Halted
    /\ shut[c].waiter = "released"
    /\ shut' = [shut EXCEPT ![c].waiter = "closed"]
    /\ UNCHANGED <<cfgVars, lockVars, metrics, ctlVars, regVars, ctxDone, processWg, runCalls, unitVars,
                   shutdownCalls, shutdownTimeouts, signalPending>>

\* select { case <-done: ...
GracefulDone(c) ==
    /\ ~Halted
    /\ shut[c].pc = "wait"
    /\ shut[c].waiter = "closed"
    /\ shut' = [shut EXCEPT ![c].pc = "teardown", ![c].branch = "done"]
    /\ UNCHANGED <<cfgVars, lockVars, metrics, ctlVars, regVars, ctxDone, processWg, runCalls, unitVars,
                   shutdownCalls, shutdownTimeouts, signalPending>>

\* Mutant: the select has no timeout case.
GracefulNoTimeout(c) ==
    /\ FALSE
    /\ UNCHANGED vars

\* ... case <-time.After(s.shutdownTimeout): s.metrics.recordShutdownTimeout() }
GracefulTimeout(c) ==
    /\ ~Halted
    /\ shut[c].pc = "wait"
    /\ shut' = [shut EXCEPT ![c].pc = "teardown", ![c].branch = "timeout",
                            ![c].timeouts = @ + 1, ![c].waiter = "orphaned"]
    /\ shutdownTimeouts' = shutdownTimeouts + 1
    /\ UNCHANGED <<cfgVars, lockVars, metrics, ctlVars, regVars, ctxDone, processWg, runCalls, unitVars,
                   shutdownCalls, signalPending>>

\* Mutant: teardown runs only after a clean wait.
TeardownOnlyWhenClean(c) ==
    /\ ~Halted
    /\ shut[c].pc = "teardown"
    /\ shut' = [shut EXCEPT ![c].pc = "returned",
                            ![c].tornDown =
                                IF shut[c].teardown /\ shut[c].branch = "done"
                                THEN @ + 1 ELSE @]
    /\ ctxDone' = TRUE
    /\ UNCHANGED <<cfgVars, lockVars, metrics, ctlVars, regVars, processWg, runCalls, unitVars, shutdownCalls,
                   shutdownTimeouts, signalPending>>

\* shutdown: if teardown != nil { teardown() }; s.shutDownCancel()
Teardown(c) ==
    /\ ~Halted
    /\ shut[c].pc = "teardown"
    /\ shut' = [shut EXCEPT ![c].pc = "returned",
                            ![c].tornDown = IF shut[c].teardown THEN @ + 1
                                            ELSE @]
    /\ ctxDone' = TRUE
    /\ UNCHANGED <<cfgVars, lockVars, metrics, ctlVars, regVars, processWg, runCalls, unitVars, shutdownCalls,
                   shutdownTimeouts, signalPending>>

\* The steps of s.shutdown in progress and of its waiting goroutine.
ShutdownStep(c) ==
    \/ GracefulCancel(c)
    \/ WaiterReleased(c)
    \/ WaiterClose(c)
    \/ GracefulDone(c)
    \/ GracefulTimeout(c)
    \/ Teardown(c)

(* ---------------------------------------------------------------------- *)
(* RestartProcess / StopProcess: manual control of one task.  Each signals *)
(* the task's unit to exit early by a task-scoped stop flag layered on the *)
(* shared token, awaits its exit, and only then changes the status.        *)
(* ---------------------------------------------------------------------- *)
UnitsOf(n) == {u \in Units : units[u].name = n}

Exited(u) == units[u].pc = "exited"

\* The stop signal of the unit's task is raised.
StopSignalled(u) == stopFlag[units[u].name]

\* The unit sees the stop signal where it checks for cancellation (the top
\* of the loop, the restart delay) and exits early.
UnitStopObserved(u) ==
    /\ ~Halted
    /\ StopSignalled(u)
    /\ units[u].pc \in {"start", "wait"}
    /\ units' = Return(u, -1)
    /\ UNCHANGED <<cfgVars, lockVars, metrics, regVars, ctxDone, processWg, runCalls, execCount,
                   recovered, panics, crashed, shutVars, ctlVars>>

\* A handler that waits for cancellation sees the stop signal and returns
\* the cancellation error; executeProcess returns shouldRestart.
UnitHandlerStopped(u) ==
    /\ ~Halted
    /\ StopSignalled(u)
    /\ units[u].pc = "handler"
    /\ HandlerOutcomes(units[u].process.handler, TRUE, units[u].count)
         = {"err"}
    /\ metrics' = StoppedEvent(metrics, units[u].name, "err")
    /\ units' = IF ExecuteProcessResult(units[u].process, "err")
                THEN Goto(u, "increment")
                ELSE Goto(u, "stop")
    /\ UNCHANGED <<cfgVars, lockVars, regVars, ctxDone, processWg, runCalls, execCount,
                   recovered, panics, crashed, shutVars, ctlVars>>

\* A step of a unit under manual control while the supervisor is not shut
\* down: the steps of the supervision loop, with the stop signal in the
\* place of the cancellation of the shared token.
ControlledUnitStep(u) ==
    \/ ~StopSignalled(u) /\ UnitCheckCtx(u)
    \/ UnitSetRunning(u)
    \/ UnitInvoke(u)
    \/ UnitHandlerEnds(u)
    \/ UnitStop(u)
    \/ UnitIncrement(u)
    \/ UnitCheckLimit(u)
    \/ UnitLimit(u)
    \/ UnitSetRestarting(u)
    \/ UnitDelayElapsed(u)
    \/ UnitDone(u)
    \/ UnitStopObserved(u)
    \/ UnitHandlerStopped(u)

ControlReply(op, name, err) ==
    [NoReply EXCEPT !.op = op, !.name = name, !.err = err]

\* A manual control call begins: not found for an unregistered name, else
\* the task's stop signal is raised and the caller awaits the unit's exit.
ControlBegin(c, op, name) ==
    /\ ~Halted
    /\ ctl[c].pc = "idle"
    /\ IF name \in Registered
       THEN /\ stopFlag' = [stopFlag EXCEPT ![name] = TRUE]
            /\ ctl' = [ctl EXCEPT ![c] = [op |-> op, name |-> name,
                                          pc |-> "await"]]
            /\ UNCHANGED reply
       ELSE /\ reply' = ControlReply(op, name, ErrNotFound)
            /\ UNCHANGED <<ctl, stopFlag>>
    /\ UNCHANGED <<cfgVars, lockVars, metrics, regVars, ctxDone, processWg, runCalls, unitVars, shutVars>>

StopProcess(c, name) == ControlBegin(c, "StopProcess", name)

RestartProcess(c, name) == ControlBegin(c, "RestartProcess", name)

\* Mutant: the status is flipped without awaiting the unit's exit.
StopAwaitedEarly(c) ==
    /\ ~Halted
    /\ ctl[c].op = "StopProcess"
    /\ ctl[c].pc = "await"
    /\ processes' = setProcessStatus(processes, ctl[c].name, StatusStopped)
    /\ reply' = ControlReply("StopProcess", ctl[c].name, ErrNil)
    /\ ctl' = [ctl EXCEPT ![c] = IdleControl]
    /\ UNCHANGED <<cfgVars, lockVars, metrics, registerPanicked, ctxDone, processWg, runCalls, unitVars,
                   shutVars, stopFlag>>

\* StopProcess: the unit has exited; the status becomes Stopped.  The stop
\* signal stays raised, which keeps the task from being invoked again.
StopAwaited(c) ==
    /\ ~Halted
    /\ ctl[c].op = "StopProcess"
    /\ ctl[c].pc = "await"
    /\ \A u \in UnitsOf(ctl[c].name) : Exited(u)
    /\ processes' = setProcessStatus(processes, ctl[c].name, StatusStopped)
    /\ reply' = ControlReply("StopProcess", ctl[c].name, ErrNil)
    /\ ctl' = [ctl EXCEPT ![c] = IdleControl]
    /\ UNCHANGED <<cfgVars, lockVars, metrics, registerPanicked, ctxDone, processWg, runCalls, unitVars,
                   shutVars, stopFlag>>

\* The record of a task that is being restarted by hand.
RestartedRecord(p) == [p EXCEPT !.status = StatusRestarting, !.restartCount = 0]

\* Mutant: the new unit is spawned without awaiting the old unit's exit.
RestartAwaitedEarly(c) ==
    /\ ~Halted
    /\ ctl[c].op = "RestartProcess"
    /\ ctl[c].pc = "await"
    /\ Len(units) < MaxUnits
    /\ processes' = [processes EXCEPT
                       ![ctl[c].name] = RestartedRecord(@)]
    /\ stopFlag' = [stopFlag EXCEPT ![ctl[c].name] = FALSE]
    /\ units' = Append(units, NewUnit(ctl[c].name,
                                      RestartedRecord(processes[ctl[c].name])))
    /\ processWg' = processWg + 1
    /\ reply' = ControlReply("RestartProcess", ctl[c].name, ErrNil)
    /\ ctl' = [ctl EXCEPT ![c] = IdleControl]
    /\ UNCHANGED <<cfgVars, lockVars, metrics, registerPanicked, ctxDone, runCalls, execCount, recovered,
                   panics, crashed, shutVars>>

\* RestartProcess: the unit has exited; the restart count is reset, the
\* status becomes Restarting, the stop signal is lowered and a new unit is
\* spawned, which sets the status to Running when it invokes the handler.
RestartAwaited(c) ==
    /\ ~Halted
    /\ ctl[c].op = "RestartProcess"
    /\ ctl[c].pc = "await"
    /\ \A u \in UnitsOf(ctl[c].name) : Exited(u)
    /\ Len(units) < MaxUnits
    /\ processes' = [processes EXCEPT
                       ![ctl[c].name] = RestartedRecord(@)]
    /\ stopFlag' = [stopFlag EXCEPT ![ctl[c].name] = FALSE]
    /\ units' = Append(units, NewUnit(ctl[c].name,
                                      RestartedRecord(processes[ctl[c].name])))
    /\ processWg' = processWg + 1
    /\ reply' = ControlReply("RestartProcess", ctl[c].name, ErrNil)
    /\ ctl' = [ctl EXCEPT ![c] = IdleControl]
    /\ UNCHANGED <<cfgVars, lockVars, metrics, registerPanicked, ctxDone, runCalls, execCount, recovered,
                   panics, crashed, shutVars>>

(* ---------------------------------------------------------------------- *)
(* Specifications                                                          *)
(* ---------------------------------------------------------------------- *)
\* The main goroutine registers the tasks, calls Run once and shuts down.
Next ==
    \/ \E r \in PolicyRegistrations : Register("a", r.handler, r.options)
    \/ \E r \in SiblingRegistrations : Register("b", r.handler, r.options)
    \/ runCalls = 0 /\ Run
    \/ shutdownCalls = 0 /\ Shutdown("main")
    \/ ShutdownStep("main")
    \/ \E u \in Units : UnitStep(u)

Spec == Init /\ [][Next]_vars

\* Two goroutines shut the supervisor down while the units of one Run are
\* live: the main goroutine by Shutdown or WaitOnShutdownSignal (which is for
\* the main goroutine only), another goroutine by Shutdown.
NextShutdown ==
    \/ \E r \in ShutdownRegistrations : Register("a", r.handler, r.options)
    \/ \E r \in SiblingRegistrations : Register("b", r.handler, r.options)
    \/ runCalls = 0 /\ Run
    \/ \E c \in Callers : Shutdown(c) \/ ShutdownStep(c)
    \/ \E teardown \in BOOLEAN : WaitOnShutdownSignal("main", teardown)
    \/ SignalArrives
    \/ SignalReceived("main")
    \/ \E u \in Units : UnitStep(u)

SpecShutdown == Init /\ [][NextShutdown]_vars

\* The scheduler runs the goroutine of a shutdown call and its waiting
\* goroutine, and the timer of the shutdown timeout fires; nothing makes a
\* handler return.
FairSpecShutdown ==
    SpecShutdown /\ \A c \in Callers : WF_vars(ShutdownStep(c))

\* The main goroutine registers the tasks and calls Run once; at runtime,
\* before any shutdown, another goroutine queries the supervisor and controls
\* single tasks by hand.
NextControl ==
    \/ \E r \in ControlRegistrations :
         runCalls = 0 /\ Register("a", r.handler, r.options)
    \/ runCalls = 0 /\ Register("b", "block", <<>>)
    \/ runCalls = 0 /\ Run
    \/ \E n \in Names :
         runCalls = 1 /\ (StopProcess("aux", n) \/ RestartProcess("aux", n))
    \/ StopAwaited("aux")
    \/ RestartAwaited("aux")
    \/ \E n \in Names : QueryIsRunning(n) \/ QueryGetProcessStatus(n)
    \/ QueryProcessCount
    \/ \E u \in Units : ControlledUnitStep(u)

SpecControl == Init /\ [][NextControl]_vars

\* The same scenario with no queries made: the main goroutine registers the
\* tasks and calls Run once, another goroutine stops and restarts single
\* tasks by hand.
NextManual ==
    \/ \E r \in ControlRegistrations :
         runCalls = 0 /\ Register("a", r.handler, r.options)
    \/ runCalls = 0 /\ Register("b", "block", <<>>)
    \/ runCalls = 0 /\ Run
    \/ \E n \in Names :
         runCalls = 1 /\ (StopProcess("aux", n) \/ RestartProcess("aux", n))
    \/ StopAwaited("aux")
    \/ RestartAwaited("aux")
    \/ \E u \in Units : ControlledUnitStep(u)

\* The scheduler runs every unit that can take a step and the goroutine of a
\* control call whose wait is over; nothing makes a caller begin a call.
FairSpecManual ==
    /\ Init /\ [][NextManual]_vars
    /\ \A u \in 1..MaxUnits : WF_vars(u \in Units /\ ControlledUnitStep(u))
    /\ WF_vars(StopAwaited("aux") \/ RestartAwaited("aux"))

\* A step of a unit whose handler is invoked at most MaxExec times.
BoundedUnitStep(u) ==
    /\ u \in Units
    /\ units[u].pc = "invoke" => execCount[units[u].name] < MaxExec
    /\ UnitStep(u)

\* The main goroutine registers one task, calls Run, possibly more than
\* once, and shuts down.
NextLifecycle ==
    \/ \E r \in LifecycleRegistrations :
         runCalls = 0 /\ Register("a", r.handler, r.options)
    \/ runCalls < MaxRuns /\ Run
    \/ shutdownCalls = 0 /\ Shutdown("main")
    \/ ShutdownStep("main")
    \/ \E u \in Units : BoundedUnitStep(u)

SpecLifecycle == Init /\ [][NextLifecycle]_vars

\* The scheduler runs every goroutine that can take a step, and the restart
\* delay elapses.
FairSpecLifecycle ==
    SpecLifecycle /\ \A u \in 1..MaxRuns : WF_vars(BoundedUnitStep(u))

\* The main goroutine registers a task with any options, calls Run once and
\* shuts down; a second task is registered before or after Run.
NextRegister ==
    \/ \E r \in OptionRegistrations :
         runCalls = 0 /\ Register("a", r.handler, r.options)
    \/ \E r \in SiblingRegistrations : Register("b", r.handler, r.options)
    \/ runCalls = 0 /\ Run
    \/ shutdownCalls = 0 /\ Shutdown("main")
    \/ ShutdownStep("main")
    \/ \E u \in Units : UnitStep(u)

SpecRegister == Init /\ [][NextRegister]_vars

\* A supervisor made by New with any arguments; the main goroutine registers
\* one task, calls Run once and shuts down.
NextNew ==
    \/ \E r \in SiblingRegistrations :
         runCalls = 0 /\ Register("a", r.handler, r.options)
    \/ runCalls = 0 /\ Run
    \/ shutdownCalls = 0 /\ Shutdown("main")
    \/ ShutdownStep("main")
    \/ \E u \in Units : UnitStep(u)

SpecNew == InitNew /\ [][NextNew]_vars

\* The main goroutine registers one task, shuts down, and calls Run before,
\* during or after the shutdown, possibly more than once.
NextLateRun ==
    \/ \E r \in SiblingRegistrations :
         runCalls = 0 /\ Register("a", r.handler, r.options)
    \/ runCalls < MaxRuns /\ Run
    \/ shutdownCalls = 0 /\ Shutdown("main")
    \/ ShutdownStep("main")
    \/ \E u \in Units : UnitStep(u)

SpecLateRun == Init /\ [][NextLateRun]_vars

\* The unit is at a call of an accessor, which takes s.lock.
TakesLock(u) ==
    units[u].pc \in {"setRunning", "stop", "increment", "checkLimit", "limit",
                     "setRestarting"}

\* A step of a unit where the critical section of Register is a step of its
\* own: an accessor waits for s.lock.
LockedUnitStep(u) ==
    /\ TakesLock(u) => lock = NoHolder
    /\ UnitStep(u)

\* The main goroutine registers a task, calls Run once and shuts down, while
\* another goroutine registers tasks.
NextLock ==
    \/ \E r \in SiblingRegistrations :
         runCalls = 0 /\ RegisterBegin("main", "a", r.handler, r.options)
    \/ \E n \in Names : RegisterBegin("aux", n, "block", <<>>)
    \/ \E c \in Callers : RegisterLock(c) \/ RegisterStore(c)
    \/ runCalls = 0 /\ regCall["main"].pc = "idle" /\ lock = NoHolder /\ Run
    \/ shutdownCalls = 0 /\ regCall["main"].pc = "idle" /\ Shutdown("main")
    \/ ShutdownStep("main")
    \/ \E u \in Units : LockedUnitStep(u)

SpecLock == Init /\ [][NextLock]_vars

\* The scheduler runs the goroutine that holds s.lock, and sync.Mutex hands
\* the lock to a goroutine that waits for it; nothing makes a unit or a
\* handler take a step.
FairSpecLock ==
    /\ SpecLock
    /\ \A c \in Callers : WF_vars(RegisterStore(c)) /\ SF_vars(RegisterLock(c))

\* The scheduler runs every goroutine that can take a step, and the restart
\* delay elapses.
FairSpecLateRun ==
    SpecLateRun
    /\ \A u \in 1..MaxRuns : WF_vars(u \in Units /\ UnitStep(u))

(* ---------------------------------------------------------------------- *)
(* Properties                                                              *)
(* ---------------------------------------------------------------------- *)
InCall(c) == shut[c].pc \in {"cancel", "wait", "teardown"}

\* The unit runs a handler that returns nil at once under a policy in ps.
NilUnder(u, ps) ==
    /\ units[u].process.handler = "nil"
    /\ units[u].process.restartPolicy \in ps

\* C1: a task whose handler returns nil immediately, under policy Never or
\* OnFailure, is never restarted (restartCount stays 0) and its handler is
\* invoked at most once; a unit of it that has finished has invoked the handler
\* exactly once and left the status Stopped, by the no-restart return.  The one
\* other way out is the cancellation check at the top of the loop, taken only
\* when a shutdown cancelled the token before the handler was invoked.
C1_NilHandlerRunsOnce ==
    \A u \in Units :
        NilUnder(u, {RestartNever, RestartOnFailure}) =>
            LET n == units[u].name IN
            /\ processes[n].restartCount = 0
            /\ execCount[n] <= 1
            /\ units[u].pc \in {"return", "exited"} =>
                 \/ /\ units[u].ret = 214
                    /\ execCount[n] = 1
                    /\ processes[n].status = StatusStopped
                 \/ /\ units[u].ret = 206
                    /\ ctxDone
                    /\ execCount[n] = 0

C1_Witness ==
    \E u \in Units :
        /\ NilUnder(u, {RestartOnFailure})
        /\ Exited(u)
        /\ units[u].ret = 214
        /\ execCount[units[u].name] = 1
        /\ ~ctxDone

\* C2: a task under policy Always with maxRestarts = N > 0 whose handler
\* returns nil immediately has, once its unit has finished without a shutdown,
\* invoked the handler exactly N + 1 times, and its status is Stopped.
C2_AlwaysRunsNPlusOne ==
    \A u \in Units :
        (NilUnder(u, {RestartAlways}) /\ Exited(u) /\ ~ctxDone) =>
            /\ execCount[units[u].name] = units[u].process.maxRestarts + 1
            /\ processes[units[u].name].status = StatusStopped

\* The unit runs a handler that always fails under OnFailure.
ErrOnFailure(u) ==
    /\ units[u].process.handler = "err"
    /\ units[u].process.restartPolicy = RestartOnFailure

\* C3: for a task under OnFailure with maxRestarts = N > 0 whose handler
\* always returns an error, restartCount never exceeds N and the handler is
\* re-invoked at most N times; once the task has stopped (the unit left by the
\* restart limit, or the status is Stopped after a first invocation)
\* restartCount equals N; a unit that finished without a shutdown left by the
\* restart limit.
C3_OnFailureStopsAtLimit ==
    \A u \in Units :
        ErrOnFailure(u) =>
            LET n == units[u].name
                N == units[u].process.maxRestarts
            IN
            /\ processes[n].restartCount <= N
            /\ execCount[n] <= N + 1
            /\ (units[u].pc \in {"return", "exited"} /\ units[u].ret = 227) =>
                 /\ processes[n].restartCount = N
                 /\ processes[n].status = StatusStopped
            /\ (processes[n].status = StatusStopped /\ execCount[n] > 0) =>
                 processes[n].restartCount = N
            /\ (Exited(u) /\ ~ctxDone) => units[u].ret = 227

C3_Witness ==
    \E u \in Units :
        /\ ErrOnFailure(u)
        /\ units[u].name = "a"
        /\ units[u].process.maxRestarts = MaxN
        /\ Exited(u)
        /\ units[u].ret = 227
        /\ processes["a"].restartCount = MaxN

\* C4: an invocation that ends in a captured panic is treated like one that
\* returned an error: under OnFailure or Always (limit not reached, token not
\* cancelled) the task is restarted, so only under Never does a panicking task
\* take the no-restart path.
C4_PanicRestartsLikeError ==
    \A u \in Units :
        (units[u].process.handler = "panic" /\ units[u].pc = "stop") =>
            units[u].process.restartPolicy = RestartNever

\* C5: a panic of one task's handler is captured in that task's unit: it
\* never ends the program, the step that captures it changes no other task's
\* record or unit and neither the token nor the wait group, and the task's
\* recover handler, if registered, has been called exactly once per panic,
\* each time with the panic value.
C5_PanicIsolated ==
    /\ [](~crashed)
    /\ [](\A n \in Registered :
            IF processes[n].recoverHandler = NoRecover
            THEN recovered[n] = <<>>
            ELSE /\ Len(recovered[n]) = panics[n]
                 /\ \A i \in 1..Len(recovered[n]) :
                      recovered[n][i] = PanicValue(n))
    /\ [][\A n \in Names :
            panics'[n] # panics[n] =>
              /\ panics'[n] = panics[n] + 1
              /\ \A m \in Registered \ {n} : processes'[m] = processes[m]
              /\ \A u \in Units : units[u].name # n => units'[u] = units[u]
              /\ \A m \in Names \ {n} :
                   /\ execCount'[m] = execCount[m]
                   /\ recovered'[m] = recovered[m]
                   /\ panics'[m] = panics[m]
              /\ ctxDone' = ctxDone
              /\ processWg' = processWg]_vars

C5_Witness ==
    /\ panics["a"] = 1
    /\ recovered["a"] = <<PanicValue("a")>>
    /\ \E u \in UnitsOf("b") : units[u].pc = "handler"
    /\ "b" \in Registered
    /\ processes["b"].status = StatusRunning

\* The units spawned before the caller's gracefulShutdown began its wait.
SpawnedBefore(c) == 1..shut[c].spawned

\* C6: Shutdown always returns, also when a running handler ignores the
\* cancellation: every call that has begun shutting down returns; while it
\* waits, the timeout case can always be taken, whatever the units do; taking
\* it records the shutdown-timeout event exactly once for that call and
\* leaves every unit as it is (a unit still running is abandoned).
C6_ShutdownReturnsOnTimeout ==
    /\ \A c \in Callers :
         (shut[c].pc = "cancel") ~> (shut[c].pc = "returned" \/ Halted)
    /\ [](\A c \in Callers :
            /\ shut[c].timeouts = IF shut[c].branch = "timeout" THEN 1 ELSE 0
            /\ (shut[c].pc = "wait" /\ ~Halted) => ENABLED GracefulTimeout(c))
    /\ [][\A c \in Callers :
            (shut'[c].branch = "timeout" /\ shut[c].branch # "timeout") =>
              /\ shut'[c].pc = "teardown"
              /\ shutdownTimeouts' = shutdownTimeouts + 1
              /\ units' = units
              /\ processWg' = processWg]_vars

C6_Witness ==
    \E c \in Callers :
        /\ shut[c].pc = "returned"
        /\ shut[c].branch = "timeout"
        /\ shut[c].timeouts = 1
        /\ shutdownTimeouts = 1
        /\ \E u \in SpawnedBefore(c) :
             /\ units[u].process.handler = "ignore"
             /\ units[u].pc = "handler"

\* C7: a shutdown call whose wait ended by the done case recorded no timeout
\* event, and every unit spawned before its wait began has finished; the
\* waiting goroutine is released only then.  When all units have finished,
\* the done case can proceed.  With one shutdown call made and its wait ended
\* cleanly, no shutdown-timeout event is recorded at all.
C7_GracefulWaitsForUnits ==
    \A c \in Callers :
        /\ shut[c].branch = "done" =>
             /\ shut[c].timeouts = 0
             /\ \A u \in SpawnedBefore(c) : Exited(u)
        /\ shut[c].waiter \in {"released", "closed"} =>
             \A u \in SpawnedBefore(c) : Exited(u)
        /\ (shut[c].branch = "done" /\ shutdownCalls = 1) => shutdownTimeouts = 0
        /\ (shut[c].pc = "wait" /\ ~Halted /\ \A u \in Units : Exited(u)) =>
             ENABLED (WaiterReleased(c) \/ WaiterClose(c) \/ GracefulDone(c))

C7_Witness ==
    \E c \in Callers :
        /\ shut[c].pc = "returned"
        /\ shut[c].branch = "done"
        /\ shutdownTimeouts = 0
        /\ \E u \in SpawnedBefore(c) :
             /\ units[u].process.handler = "block"
             /\ Exited(u)
             /\ execCount[units[u].name] = 1

\* C8: in every shutdown the token is cancelled before the wait, and the
\* teardown callback runs only after the wait has ended: while a call is
\* waiting or later the token is cancelled, before the wait has ended no
\* teardown has run, and a call that has returned ended its wait (cleanly or
\* by timeout) and ran its teardown callback exactly once if one was given.
C8_ShutdownOrder ==
    \A c \in Callers :
        /\ shut[c].pc \in {"wait", "teardown", "returned"} => ctxDone
        /\ shut[c].pc \in {"idle", "signal", "cancel", "wait"} =>
             (shut[c].branch = "none" /\ shut[c].tornDown = 0)
        /\ shut[c].pc = "teardown" =>
             (shut[c].branch \in {"done", "timeout"} /\ shut[c].tornDown = 0)
        /\ shut[c].pc = "returned" =>
             /\ shut[c].branch \in {"done", "timeout"}
             /\ shut[c].tornDown = IF shut[c].teardown THEN 1 ELSE 0

C8_Witness ==
    /\ shut["main"].pc = "returned"
    /\ shut["main"].teardown
    /\ shut["main"].tornDown = 1
    /\ shut["main"].branch = "timeout"

RegistrationsOf(n) ==
    IF n = "a" THEN PolicyRegistrations ELSE SiblingRegistrations

\* The fields of a record that Register sets and nothing else writes.
Configuration(p) ==
    <<p.name, p.handler, p.recoverHandler, p.restartPolicy, p.maxRestarts,
      p.restartDelay>>

\* C10: Register with a name already in the registry takes the fatal path and
\* leaves the registry unchanged (no record replaced, ProcessCount unchanged);
\* Register with a name not in the registry succeeds, adds that one record and
\* raises ProcessCount by one, so two distinct names give ProcessCount = 2.
C10_DuplicateNameIsFatal ==
    /\ [](~Halted =>
            \A n \in Names : \A r \in RegistrationsOf(n) :
              IF n \in Registered
              THEN ~ENABLED (/\ Register(n, r.handler, r.options)
                             /\ ~(registerPanicked' /\ processes' = processes))
              ELSE ~ENABLED (/\ Register(n, r.handler, r.options)
                             /\ ~(/\ ~registerPanicked'
                                  /\ ProcessCount' = ProcessCount + 1)))
    /\ [][/\ \A n \in Registered :
               /\ n \in DOMAIN processes'
               /\ Configuration(processes'[n]) = Configuration(processes[n])
          /\ registerPanicked' => (processes' = processes /\ ProcessCount >= 1)
          /\ DOMAIN processes' # Registered =>
               /\ ~registerPanicked'
               /\ ProcessCount' = ProcessCount + 1
               /\ \A m \in Registered : processes'[m] = processes[m]]_vars
    /\ [](Registered = Names => ProcessCount = 2)

C10_Witness ==
    /\ registerPanicked
    /\ ProcessCount = 2

\* The state other than the reply a caller holds and the call it is in.
SupervisorState ==
    <<processes, ctxDone, processWg, units, runCalls, execCount, recovered,
      panics, registerPanicked, crashed, shut, shutdownCalls,
      shutdownTimeouts, signalPending, stopFlag, metrics, newArgs,
      shutdownTimeout, logger, lock, regCall, race>>

\* C11: GetProcessStatus, RestartProcess and StopProcess called with a name
\* that is not registered return the not-found error and change nothing (the
\* registered names, every status and restartCount, the units, the stop
\* signals); IsRunning on such a name returns false; a control call never
\* goes on to act on an unregistered name.
C11_UnknownNameNotFound ==
    /\ [][(reply' # reply /\ reply'.name \in Names \ Registered) =>
            /\ reply'.op \in {"GetProcessStatus", "RestartProcess",
                               "StopProcess"} => reply'.err = ErrNotFound
            /\ reply'.op = "IsRunning" => reply'.ok = FALSE
            /\ UNCHANGED SupervisorState
            /\ UNCHANGED ctl]_vars
    /\ [](\A c \in Callers : ctl[c].pc = "await" => ctl[c].name \in Registered)

C11_Witness ==
    /\ reply = ControlReply("RestartProcess", "b", ErrNotFound)
    /\ "b" \notin Registered
    /\ IsRunning("a")

\* The units of a task that have not finished.
ActiveUnits(n) == {u \in UnitsOf(n) : ~Exited(u)}

\* C12: at every moment at most one execution unit is active for any task
\* name, also when Run is invoked more than once, and so a task's handler is
\* never executing twice at the same time.
C12_OneUnitPerName ==
    \A n \in Names :
        /\ Cardinality(ActiveUnits(n)) <= 1
        /\ Cardinality({u \in UnitsOf(n) : units[u].pc = "handler"}) <= 1

\* Task n is the one of the scenario: its handler fails on the first
\* invocation and waits for cancellation afterwards, under OnFailure with
\* maxRestarts = 2 and a positive delay; Run was called once.
Scenario(n) ==
    /\ n \in Registered
    /\ processes[n].handler = "errThenBlock"
    /\ processes[n].restartPolicy = RestartOnFailure
    /\ processes[n].maxRestarts = 2
    /\ processes[n].restartDelay > 0
    /\ runCalls = 1

\* The state the scenario settles in.
Settled(n) ==
    /\ execCount[n] = 2
    /\ processes[n].status = StatusRunning
    /\ processes[n].restartCount = 1

\* C13: in the scenario the system reaches, and until shutdown stays in, the
\* state where the handler has been invoked exactly 2 times, the status is
\* Running and restartCount is 1; until then the status changes only from
\* Stopped to Running (before the first invocation), from Running to
\* Restarting (after the first invocation, restartCount becoming 1) and from
\* Restarting to Running (before the second invocation).
C13_FailOnceThenRun ==
    /\ Scenario("a") ~> (Settled("a") \/ ctxDone \/ runCalls > 1)
    /\ [][(Scenario("a") /\ Settled("a") /\ ~ctxDone) =>
            (Settled("a")' \/ runCalls' > 1)]_vars
    /\ [][(Scenario("a") /\ ~ctxDone /\ runCalls' = 1
            /\ processes'["a"].status # processes["a"].status) =>
            \/ /\ processes["a"].status = StatusStopped
               /\ processes'["a"].status = StatusRunning
               /\ execCount["a"] = 0
               /\ processes["a"].restartCount = 0
            \/ /\ processes["a"].status = StatusRunning
               /\ processes'["a"].status = StatusRestarting
               /\ execCount["a"] = 1
               /\ processes["a"].restartCount = 1
            \/ /\ processes["a"].status = StatusRestarting
               /\ processes'["a"].status = StatusRunning
               /\ execCount["a"] = 1
               /\ processes["a"].restartCount = 1]_vars

C13_Witness ==
    /\ Scenario("a")
    /\ Settled("a")
    /\ ~ctxDone
    /\ \E u \in UnitsOf("a") : units[u].pc = "handler" /\ units[u].count = 2

\* C14: a task configured with maxRestarts <= 0 is bounded by the default
\* limit: started by one Run it is restarted at most DefaultMaxRestarts times
\* (its handler invoked at most DefaultMaxRestarts + 1 times), and a unit of
\* it whose handler always returns is not still looping past that limit.
C14_NonPositiveLimitIsDefault ==
    \A u \in Units :
        (units[u].process.maxRestarts <= 0 /\ runCalls = 1) =>
            /\ processes[units[u].name].restartCount <= DefaultMaxRestarts
            /\ execCount[units[u].name] <= DefaultMaxRestarts + 1

\* C19: shutdown is terminal for the status: once Shutdown has been called
\* and every execution unit has exited, every task's status is Stopped,
\* whatever its policy and wherever the cancellation found its unit.
C19_ShutdownLeavesStopped ==
    (shutdownCalls > 0 /\ ctxDone /\ \A u \in Units : Exited(u)) =>
        \A n \in Registered : processes[n].status = StatusStopped

\* The place of the last option of a kind in a list of options, 0 if none.
LastIndex(opts, kind) ==
    LET S == {i \in 1..Len(opts) : opts[i].opt = kind}
    IN IF S = {} THEN 0 ELSE CHOOSE i \in S : \A j \in S : j <= i

\* Register may be called for task a with any of the option lists.
CanRegisterA == ~Halted /\ runCalls = 0 /\ "a" \notin Registered

\* C15: Register creates the task with status Stopped, restartCount 0, and
\* policy Never, maxRestarts 3, restartDelay 1s and no recover handler unless
\* an option sets the field, in which case the last option that sets it wins;
\* the step invokes no handler, spawns no unit, leaves the token and the wait
\* group alone and changes no other task's record.
C15_RegisterDefaultsAndOptions ==
    /\ [](CanRegisterA =>
            \A r \in OptionRegistrations :
              ~ENABLED (/\ Register("a", r.handler, r.options)
                        /\ ~(LET p == processes'["a"]
                                 ir == LastIndex(r.options, "WithRestart")
                                 ic == LastIndex(r.options, "WithRecover")
                             IN /\ p.name = "a"
                                /\ p.handler = r.handler
                                /\ p.status = StatusStopped
                                /\ p.restartCount = 0
                                /\ p.restartPolicy =
                                     IF ir = 0 THEN RestartNever
                                     ELSE r.options[ir].policy
                                /\ p.maxRestarts =
                                     IF ir = 0 THEN 3
                                     ELSE r.options[ir].maxRestarts
                                /\ ir = 0 => p.restartDelay = 1
                                /\ p.recoverHandler =
                                     IF ic = 0 THEN NoRecover
                                     ELSE r.options[ic].handler)))
    /\ [][DOMAIN processes' # Registered =>
            /\ \A m \in Registered : processes'[m] = processes[m]
            /\ \A n \in DOMAIN processes' \ Registered :
                 /\ processes'[n].status = StatusStopped
                 /\ processes'[n].restartCount = 0
            /\ UNCHANGED <<units, execCount, processWg, ctxDone, recovered,
                           panics, runCalls>>]_vars

C15_Witness ==
    /\ Registered = Names
    /\ processes["a"].restartPolicy = RestartAlways
    /\ processes["a"].maxRestarts = 0
    /\ processes["a"].recoverHandler = RecoverFn
    /\ \E u \in UnitsOf("a") : units[u].pc = "handler"
    /\ processes["b"].restartPolicy = RestartNever
    /\ processes["b"].maxRestarts = DefaultMaxRestarts
    /\ processes["b"].status = StatusStopped
    /\ UnitsOf("b") = {}

\* C16: the default of the restart delay is substituted when the option is
\* applied: after Register the task's restartDelay is the default when the
\* last WithRestart was given a delay of zero or below and the given delay
\* when it was positive, so a delay of 0 and the default delay give the same
\* record; no record and no unit's copy ever has a non-positive restartDelay.
C16_DelayDefaultAtConfiguration ==
    /\ \A n \in Registered : processes[n].restartDelay > 0
    /\ \A u \in Units : units[u].process.restartDelay > 0
    /\ CanRegisterA =>
         \A r \in OptionRegistrations :
           LET ir == LastIndex(r.options, "WithRestart") IN
           ir # 0 =>
             ~ENABLED (/\ Register("a", r.handler, r.options)
                       /\ processes'["a"].restartDelay #
                            IF r.options[ir].delay <= 0 THEN DefaultRestartDelay
                            ELSE r.options[ir].delay)

C16_Witness ==
    /\ "a" \in Registered
    /\ processes["a"].restartPolicy = RestartOnFailure
    /\ processes["a"].maxRestarts = 0
    /\ processes["a"].restartDelay = DefaultRestartDelay
    /\ \E u \in UnitsOf("a") : units[u].process.restartDelay = DefaultRestartDelay

\* StopProcess(n) has returned and no control call on n has begun since.
StopReturned(n) ==
    /\ stopFlag[n]
    /\ \A c \in Callers : ctl[c].pc = "await" => ctl[c].name # n

\* C17: after StopProcess(name) has returned for a registered task its
\* status is Stopped, IsRunning(name) is false and no unit of it is left,
\* whatever its policy; from then on its handler is not invoked again and
\* IsRunning stays false, until a control call on that task begins.
C17_StopProcessIsFinal ==
    /\ [](\A n \in Names :
            StopReturned(n) =>
              /\ n \in Registered
              /\ processes[n].status = StatusStopped
              /\ ~IsRunning(n)
              /\ ActiveUnits(n) = {})
    /\ [][\A n \in Names :
            StopReturned(n) =>
              /\ execCount'[n] = execCount[n]
              /\ processes'[n].status = StatusStopped
              /\ \/ StopReturned(n)'
                 \/ \E c \in Callers :
                      ctl'[c].pc = "await" /\ ctl'[c].name = n]_vars

C17_Witness ==
    /\ StopReturned("a")
    /\ processes["a"].restartPolicy = RestartAlways
    /\ processes["a"].restartCount < processes["a"].maxRestarts
    /\ execCount["a"] >= 1
    /\ processes["a"].status = StatusStopped
    /\ \E u \in UnitsOf("a") : units[u].ret = -1

\* RestartProcess(n) has just returned: the new unit has not begun.
Respawned(n) ==
    /\ n \in Registered
    /\ ~stopFlag[n]
    /\ processes[n].status = StatusRestarting
    /\ processes[n].restartCount = 0
    /\ \E u \in ActiveUnits(n) : units[u].pc = "start"

\* C18: RestartProcess on a task with a unit makes the handler be invoked
\* again with the status going through Restarting back to Running: the call
\* leads to the respawned state (status Restarting, a new unit) and from there
\* to the new unit being in the handler with status Running, unless a control
\* call on the task intervenes, and entering the handler raises the execution
\* count by one; the respawning step changes no other task's record, no
\* invocation count and no other unit, the beginning of the call changes no
\* record or unit at all, and at no time has a task two unfinished units.
C18_RestartProcessReinvokes ==
    /\ [](\A n \in Names : Cardinality(ActiveUnits(n)) <= 1)
    /\ [][\A c \in Callers :
            /\ (ctl[c].pc = "idle" /\ ctl'[c].pc = "await") =>
                 UNCHANGED <<processes, units, execCount, processWg>>
            /\ \A n \in Names :
                 (/\ ctl[c].op = "RestartProcess"
                  /\ ctl[c].name = n
                  /\ ctl'[c].pc = "idle") =>
                 /\ Respawned(n)'
                 /\ \A m \in Registered \ {n} : processes'[m] = processes[m]
                 /\ execCount' = execCount
                 /\ Len(units') = Len(units) + 1
                 /\ \A u \in Units : units'[u] = units[u]
                 /\ units'[Len(units')].name = n]_vars
    /\ \A n \in Names :
         (/\ ctl["aux"].op = "RestartProcess"
          /\ ctl["aux"].name = n
          /\ Len(units) < MaxUnits) ~> (Respawned(n) \/ Halted)
    /\ \A n \in Names :
         Respawned(n)
           ~> \/ /\ IsRunning(n)
                 /\ \E u \in ActiveUnits(n) : units[u].pc = "handler"
              \/ stopFlag[n]
              \/ Halted
    /\ [][\A u \in Units :
            (units[u].pc # "handler" /\ units'[u].pc = "handler") =>
              execCount'[units[u].name] = execCount[units[u].name] + 1]_vars

C18_Witness ==
    /\ reply = ControlReply("RestartProcess", "a", ErrNil)
    /\ processes["a"].handler = "block"
    /\ execCount["a"] = 2
    /\ IsRunning("a")
    /\ Cardinality(UnitsOf("a")) = 2
    /\ execCount["b"] = 1
    /\ IsRunning("b")

C21_RegisteredIsRunning ==
    (runCalls = 0 /\ ~Halted) => \A n \in Registered : IsRunning(n)

\* The units a step has spawned.
SpawnedNow == (Len(units) + 1)..Len(units')

\* C22: Run() starts exactly the tasks in the registry when it takes its
\* snapshot, one unit per task, each at the top of its loop with the
\* snapshotted record, and returns with no handler invoked and no status
\* changed by the call itself; no other operation spawns a unit, so a task
\* registered after the snapshot has no unit, its handler is never invoked and
\* its status stays Stopped.
C22_RunStartsItsSnapshot ==
    /\ [](\A n \in Registered :
            /\ Cardinality(UnitsOf(n)) <= 1
            /\ UnitsOf(n) = {} =>
                 /\ execCount[n] = 0
                 /\ processes[n].status = StatusStopped)
    /\ [][/\ (runCalls' = runCalls + 1) =>
               (/\ Cardinality(SpawnedNow) = Cardinality(Registered)
                /\ \A n \in Registered :
                     \E u \in SpawnedNow :
                        units'[u] = NewUnit(n, processes[n])
                /\ \A u \in Units : units'[u] = units[u]
                /\ UNCHANGED <<processes, execCount, metrics>>)
          /\ (runCalls' = runCalls) => (Len(units') = Len(units))]_vars

C22_Witness ==
    /\ runCalls = 1
    /\ ~ctxDone
    /\ Registered = {"a", "b"}
    /\ \E u \in UnitsOf("a") : units[u].pc = "handler"
    /\ IsRunning("a")
    /\ UnitsOf("b") = {}
    /\ processes["b"].handler = "err"

\* C23: the supervisor New(timeout, logger) returns has an empty registry
\* (ProcessCount() = 0), no unit and a lifetime token that is not cancelled;
\* from then on it holds the given shutdown timeout if that was positive and
\* the default (5s) if it was zero or negative, and a logger that is not nil
\* (the given one when one was given), and the token is cancelled only by a
\* shutdown call.
C23_NewStoresTimeoutOrDefault ==
    /\ ProcessCount = 0
    /\ Units = {}
    /\ ~ctxDone
    /\ [](/\ shutdownTimeout = IF newArgs.timeout > 0 THEN newArgs.timeout
                               ELSE DefaultGracefulShutdownTimeout
          /\ shutdownTimeout > 0
          /\ logger.base # NilLogger
          /\ newArgs.logger # NilLogger => logger.base = newArgs.logger
          /\ ctxDone => shutdownCalls > 0)

C23_Witness ==
    /\ newArgs.timeout < 0
    /\ newArgs.logger = NilLogger
    /\ shutdownTimeout = DefaultGracefulShutdownTimeout
    /\ logger = WithGroup(DefaultLogger, LogNSSupervisor)
    /\ ProcessCount = 0
    /\ runCalls = 0
    /\ shutdownCalls = 0

\* The restart events recorded for a task under a policy.
RestartedEvents(n, policy) ==
    Value(metrics.processRestarted, {ProcessName(n), Policy(policy)})

\* C24: the restart-count metric reports the task's current restart count:
\* for a task started by one Run, after the restart events with counts 1, 2,
\* ..., k the accumulated value of simplevisor_process_restart_count of the
\* task equals k.
C24_RestartCountMetricIsCurrent ==
    \A u \in Units :
        runCalls = 1 =>
            Value(metrics.processRestartCount, {ProcessName(units[u].name)})
                = RestartedEvents(units[u].name, units[u].process.restartPolicy)

\* The unit is between the started event and the end of the invocation.
Executing(u) == units[u].pc \in {"invoke", "handler"}

\* C25: the processes-running metric counts the running invocations: no
\* series of it is ever negative, and the series an invocation of a task
\* raised when it started reads 1 while the invocation executes and 0 once it
\* has ended, by success, error or captured panic.
C25_RunningMetricCountsExecuting ==
    /\ \A s \in DOMAIN metrics.processesRunning :
          metrics.processesRunning[s] >= 0
    /\ \A u \in Units :
          Value(metrics.processesRunning,
                {ProcessName(units[u].name),
                 Policy(units[u].process.restartPolicy)})
              = IF Executing(u) THEN 1 ELSE 0

\* The restart-limit-exceeded events recorded for the task of a unit.
LimitExceededEvents(u) ==
    Value(metrics.restartLimitExceeded,
          {ProcessName(units[u].name),
           MaxRestartsAttr(units[u].process.maxRestarts)})

\* The unit has left its loop by the restart limit.
LeftByLimit(u) == units[u].pc \in {"return", "exited"} /\ units[u].ret = 227

\* C26: in the restart loop every restart decision increments restartCount
\* before the limit is checked, and the check sends the unit to the limit exit
\* exactly when maxRestarts > 0 and restartCount >= maxRestarts; a unit that
\* has left by the limit has recorded the restart-limit-exceeded event exactly
\* once (a unit that has not, never), its task's status is Stopped and stays
\* so, and its handler is not invoked again, whatever the policy.
C26_LimitHaltsForGood ==
    /\ [](\A u \in Units :
            /\ LimitExceededEvents(u) = IF LeftByLimit(u) THEN 1 ELSE 0
            /\ LeftByLimit(u) =>
                 /\ units[u].process.maxRestarts > 0
                 /\ processes[units[u].name].restartCount
                       = units[u].process.maxRestarts
                 /\ processes[units[u].name].status = StatusStopped)
    /\ [][\A u \in Units :
            LET n == units[u].name IN
            /\ (units[u].pc = "handler" /\ units'[u].pc # "handler") =>
                  (/\ units'[u].pc \in {"increment", "stop"}
                   /\ UNCHANGED processes)
            /\ (units[u].pc = "increment" /\ units'[u].pc # "increment") =>
                  (/\ units'[u].pc = "checkLimit"
                   /\ processes'[n].restartCount
                         = processes[n].restartCount + 1)
            /\ (units[u].pc = "checkLimit" /\ units'[u].pc # "checkLimit") =>
                  (/\ UNCHANGED processes
                   /\ units'[u].pc =
                        IF /\ units[u].process.maxRestarts > 0
                           /\ processes[n].restartCount
                                 >= units[u].process.maxRestarts
                        THEN "limit" ELSE "setRestarting")
            /\ units'[u].pc \in {"limit", "setRestarting"} =>
                  units[u].pc \in {"checkLimit", units'[u].pc}
            /\ LeftByLimit(u) =>
                  (/\ execCount'[n] = execCount[n]
                   /\ LeftByLimit(u)')]_vars

C26_Witness ==
    \E u \in Units :
        /\ Exited(u)
        /\ units[u].ret = 227
        /\ units[u].process.restartPolicy = RestartAlways
        /\ units[u].process.maxRestarts = MaxN
        /\ execCount[units[u].name] = MaxN
        /\ LimitExceededEvents(u) = 1
        /\ ~ctxDone

\* The shutdown of the main goroutine has cancelled the lifetime token.
Cancelled == ctxDone /\ shut["main"].pc \in {"wait", "teardown", "returned"}

\* The unit was spawned by a Run called after the token was cancelled.
SpawnedAfterCancel(u) == Cancelled /\ u > shut["main"].spawned

\* C27: a unit that is at the top of its loop while the lifetime token is
\* cancelled leaves by the cancellation exit, with no handler invoked and no
\* status, restartCount or metric changed.  Cancellation stays: a unit
\* spawned by a Run called after the cancellation never invokes the handler,
\* once the earlier units have exited no task's record changes any more, and
\* every unit at the top of its loop under a cancelled token terminates.
C27_CancelledUnitExitsAtOnce ==
    /\ [](\A u \in Units :
            SpawnedAfterCancel(u) =>
                /\ units[u].pc \in {"start", "return", "exited"}
                /\ units[u].pc # "start" => units[u].ret = 206
                /\ units[u].count = 0)
    /\ [][/\ \A u \in Units :
               (units[u].pc = "start" /\ ctxDone /\ units'[u] # units[u]) =>
                   (/\ units'[u] = [units[u] EXCEPT !.pc = "return",
                                                    !.ret = 206]
                    /\ UNCHANGED <<processes, execCount, metrics>>)
          /\ (Cancelled /\ \A u \in Units :
                             u <= shut["main"].spawned => Exited(u)) =>
                (/\ \A n \in Registered : processes'[n] = processes[n]
                 /\ UNCHANGED <<execCount, metrics>>)]_vars
    /\ \A u \in 1..MaxRuns :
          (u \in Units /\ units[u].pc = "start" /\ ctxDone) ~>
              (u \in Units /\ Exited(u))

C27_Witness ==
    /\ runCalls = 2
    /\ Registered = {"a"}
    /\ Len(units) = 2
    /\ shut["main"].pc = "returned"
    /\ shut["main"].spawned = 1
    /\ execCount["a"] = 1
    /\ processes["a"].status = StatusRestarting
    /\ \A u \in Units : Exited(u)
    /\ units[2].ret = 206

\* The unit has left its loop after the restart delay of a restart that the
\* cancellation overtook: by the cancellation case of the delay, or by the
\* cancellation check at the top of the loop when the timer won the select.
LeftFromDelay(u) ==
    /\ units[u].pc \in {"return", "exited"}
    /\ units[u].ret = 242 \/ (units[u].ret = 206 /\ units[u].count > 0)

\* C28: a unit that waits out the restart delay while the lifetime token is
\* cancelled leaves the wait without changing any record, invocation count or
\* metric, and goes to an exit without invoking the handler again; it does
\* exit; a task started by one Run is left with the status Restarting and the
\* restartCount the unit had set before the wait.
C28_CancelledDelayExits ==
    /\ [](\A u \in Units :
            /\ units[u].ret = 242 => ctxDone
            /\ (runCalls = 1 /\ LeftFromDelay(u)) =>
                 /\ processes[units[u].name].status = StatusRestarting
                 /\ processes[units[u].name].restartCount
                       = execCount[units[u].name])
    /\ [][\A u \in Units :
            (units[u].pc = "wait" /\ ctxDone /\ units'[u] # units[u]) =>
                (/\ \/ units'[u] = [units[u] EXCEPT !.pc = "return",
                                                    !.ret = 242]
                    \/ units'[u] = [units[u] EXCEPT !.pc = "start"]
                 /\ ctxDone'
                 /\ UNCHANGED <<processes, execCount, metrics>>)]_vars
    /\ \A u \in 1..MaxRuns :
          (u \in Units /\ units[u].pc = "wait" /\ ctxDone) ~>
              (u \in Units /\ Exited(u) /\ units[u].ret \in {206, 242})

C28_Witness ==
    /\ runCalls = 1
    /\ ctxDone
    /\ \E u \in Units :
          /\ Exited(u)
          /\ units[u].ret = 242
          /\ execCount[units[u].name] = 1
          /\ processes[units[u].name].restartCount = 1
          /\ processes[units[u].name].status = StatusRestarting

\* The started events recorded for a task under a policy.
StartedEvents(n, policy) ==
    Value(metrics.processStarted, {ProcessName(n), Policy(policy)})

\* The stopped events recorded for a task with a reason.
StoppedEvents(n, reason) ==
    Value(metrics.processStopped, {ProcessName(n), Reason(reason)})

\* C29: every handler invocation is bracketed by one started and one stopped
\* event: a started event precedes each invocation, the stopped events of a
\* task never outnumber its started events, and whenever no invocation of the
\* task is executing the two are equal, a captured panic being a stop with
\* reason error.
C29_StartedStoppedBracket ==
    \A u \in Units :
        LET n == units[u].name
            started == StartedEvents(n, units[u].process.restartPolicy)
            stopped == StoppedEvents(n, "success") + StoppedEvents(n, "error")
        IN
        /\ started = execCount[n] + (IF units[u].pc = "invoke" THEN 1 ELSE 0)
        /\ stopped <= started
        /\ (\A v \in UnitsOf(n) : ~Executing(v)) => stopped = started

\* C30: every read and every write of the registry map, of a status and of a
\* restartCount is made while holding s.lock: no operation reads the registry
\* without the lock while another goroutine is writing it.
C30_RegistryAccessesHoldTheLock == ~race

\* The unit is suspended: in its handler (or the recover callback the
\* handler's panic runs) or in the restart delay.
Suspended(u) == units[u].pc \in {"handler", "wait"}

C32_UnitTouchesOwnRecordOnly ==
    [][\A u \in Units :
          units'[u] # units[u] =>
              /\ DOMAIN processes' = DOMAIN processes
              /\ \A n \in Registered \ {units[u].name} :
                    /\ processes'[n].status = processes[n].status
                    /\ processes'[n].restartCount = processes[n].restartCount
                    /\ processes'[n] = processes[n]]_vars

C32_Witness ==
    /\ Registered = {"a", "b"}
    /\ \E u \in UnitsOf("a") : Exited(u) /\ units[u].ret = 227
    /\ processes["a"].restartCount = MaxN
    /\ processes["a"].status = StatusStopped
    /\ \E u \in UnitsOf("b") : units[u].pc = "handler"
    /\ processes["b"].restartCount = 0
    /\ processes["b"].status = StatusRunning

\* The step completes a manual restart of the task.
ManualRestartOf(n) ==
    \E c \in Callers :
        /\ ctl[c].op = "RestartProcess"
        /\ ctl[c].pc = "await"
        /\ ctl[c].name = n
        /\ ctl'[c].pc = "idle"

InRestartStep(u) ==
    units[u].pc \in {"increment", "checkLimit", "limit", "setRestarting",
                     "wait", "start", "setRunning", "invoke"}

\* C34: restartCount counts the restarts that occurred: for a task started by
\* one Run, whenever its unit is not inside a restart step restartCount is
\* the number of invocations of the handler after the first (0 if there was
\* none), also after the restart limit stopped the task and after a shutdown.
C34_RestartCountIsReinvocations ==
    \A u \in Units :
        (runCalls = 1 /\ ~InRestartStep(u)) =>
            processes[units[u].name].restartCount
                = IF execCount[units[u].name] = 0 THEN 0
                  ELSE execCount[units[u].name] - 1

\* The accumulated value of the status series of a task and a status.
StatusGauge(n, status) ==
    Value(metrics.processStatusGauge, {ProcessName(n), StatusAttr(status)})

\* The gauge of the task shows the status: the documented value on the
\* series of that status, 0 on the series of the other statuses.
GaugeShows(n, status) ==
    \A s \in ProcessStatus :
        StatusGauge(n, s) = IF s = status THEN StatusValue(status) ELSE 0

\* C35: the process-status metric reflects the current status: for a task
\* started by one Run, after the started event (the handler about to run or
\* running) the gauge shows Running, and after the restarted event (the
\* unit in the restart delay) it shows Restarting.
C35_StatusGaugeShowsStatus ==
    \A u \in Units :
        runCalls = 1 =>
            /\ Executing(u) => GaugeShows(units[u].name, StatusRunning)
            /\ units[u].pc = "wait" =>
                  GaugeShows(units[u].name, StatusRestarting)

\* C36: the duplicate-name check is atomic with the insertion: a Register
\* call that has passed the check stores under a name that is still unused,
\* so of two concurrent calls with one name only one gets past the check and
\* no record of the registry is overwritten.
C36_NameCheckAtomicWithInsert ==
    \A c \in Callers :
        regCall[c].pc \in {"built", "locked"} =>
            /\ regCall[c].name \notin Registered
            /\ \A d \in Callers \ {c} :
                  regCall[d].pc \in {"built", "locked"} =>
                      regCall[d].name # regCall[c].name

\* C37: with Run() called once, the status of a task agrees with its unit:
\* while the handler executes the status is Running, a task whose status is
\* Restarting or Stopped has no invocation of its handler executing, and the
\* status is already Running when the handler is invoked.
C37_StatusAgreesWithUnit ==
    runCalls <= 1 =>
        /\ \A u \in Units :
              units[u].pc = "handler" =>
                  processes[units[u].name].status = StatusRunning
        /\ \A n \in Registered :
              processes[n].status \in {StatusRestarting, StatusStopped} =>
                  \A u \in UnitsOf(n) : units[u].pc # "handler"
        /\ \A u \in Units :
              units[u].pc = "invoke" =>
                  processes[units[u].name].status = StatusRunning

C37_Witness ==
    /\ runCalls = 1
    /\ \E u \in UnitsOf("a") :
          /\ units[u].pc = "handler"
          /\ units[u].count = 2
          /\ processes["a"].status = StatusRunning
    /\ "b" \in Registered
    /\ processes["b"].status = StatusRestarting
    /\ \E u \in UnitsOf("b") : units[u].pc = "wait"

\* The unit has set the status to Stopped and returned: the handler ended
\* with no restart due, or the restart limit was reached.
StoppedAndExited(u) == Exited(u) /\ units[u].ret \in {214, 227}

\* C38: with Run() called once and no manual control, a status changes only
\* from Stopped to Running, from Running to Restarting, from Restarting to
\* Running or from Running to Stopped (never from Stopped to Restarting nor
\* from Restarting to Stopped), and the status of a task whose unit has set
\* Stopped and exited never changes again.
C38_StatusChangesFollowLifecycle ==
    [][runCalls' <= 1 =>
          \A n \in Registered :
              /\ (processes'[n].status # processes[n].status) =>
                    (<<processes[n].status, processes'[n].status>> \in
                        {<<StatusStopped, StatusRunning>>,
                         <<StatusRunning, StatusRestarting>>,
                         <<StatusRestarting, StatusRunning>>,
                         <<StatusRunning, StatusStopped>>})
              /\ (\E u \in UnitsOf(n) : StoppedAndExited(u)) =>
                    (/\ processes[n].status = StatusStopped
                     /\ processes'[n].status = StatusStopped)]_vars

C38_Witness ==
    /\ runCalls = 1
    /\ \E u \in UnitsOf("a") :
          /\ StoppedAndExited(u)
          /\ units[u].count >= 2
    /\ processes["a"].status = StatusStopped
    /\ \E c \in Callers : shut[c].pc = "returned"
    /\ \E u \in UnitsOf("b") : Exited(u) /\ units[u].ret = 242
    /\ processes["b"].status = StatusRestarting

\* The caller's Shutdown has returned, its wait ended without a timeout
\* event, and no unit was spawned after it began.
ReturnedClean(c) ==
    /\ shut[c].pc = "returned"
    /\ shut[c].timeouts = 0
    /\ shut[c].branch = "done"
    /\ Len(units) = shut[c].spawned

\* C39: the wait group holds one entry for each spawned unit that has not
\* exited (a unit whose handler panicked releases its entry as any other), so
\* when Shutdown() has returned without a shutdown-timeout event and no Run()
\* spawned units during it, every spawned unit has exited and no handler is
\* executing.
C39_ShutdownWaitCoversEveryUnit ==
    /\ ~crashed => processWg = Cardinality({u \in Units : ~Exited(u)})
    /\ \A c \in Callers :
          ReturnedClean(c) =>
              \A u \in Units : Exited(u) /\ ~Executing(u)

C39_Witness ==
    /\ ReturnedClean("main")
    /\ runCalls = 1
    /\ Len(units) = 2
    /\ processWg = 0
    /\ panics["a"] >= 1
    /\ \E u \in UnitsOf("b") :
          /\ units[u].process.handler = "block"
          /\ units[u].count = 1
          /\ Exited(u)

====
